---- MODULE Spec2Model ----
(***************************************************************************)
(* A model of the go.ansible Playbook runner (package ansible):            *)
(* target resolution (resolvePlaybooks), staging of secrets                *)
(* (prepareTempFiles / writeTempFile / cleanupTempFiles), command          *)
(* construction (buildCommands and the option table) and sequential        *)
(* execution (runCommands), as one state machine per entry point.          *)
(*                                                                         *)
(* Strings are TLA+ strings.  TLC treats a string as an atom, so the       *)
(* characters of the few strings whose inside the code inspects (glob      *)
(* patterns, file names, inventories, secret contents) are given by the    *)
(* tables Chars and Bytes.                                                 *)
(***************************************************************************)
EXTENDS Integers, Sequences, FiniteSets, TLC

VARIABLES
    cfg,        \* Playbook.Config
    tempFiles,  \* Playbook.tempFiles
    fs,         \* the caller's files: name -> "absent" | "file" | "dangling"
    tmp,        \* Config.TempDir: name -> [exists, content, perm]
    ctxDone,    \* the context passed to Exec has been cancelled
    pc,         \* position of the running entry point
    err,        \* the error the entry point returned ("" is nil)
    cmds,       \* the []*exec.Cmd built by buildCommands
    idx,        \* runCommands' loop index (1-based)
    wt,         \* the frame of a direct call of writeTempFile or applyOption
    given,      \* history: Config.Playbooks as the caller set it
    created,    \* history: every temp file name os.CreateTemp returned
    started,    \* history: indices of the commands whose process was started
    results,    \* history: how each started process ended
    stages      \* history: the stages of Exec that have run, and what
                \* happened to the staged files around a release

vars == <<cfg, tempFiles, fs, tmp, ctxDone, pc, err, cmds, idx, wt,
          given, created, started, results, stages>>

----------------------------------------------------------------------------
(* Bounds of the model.                                                    *)

\* longest Config.Playbooks list the resolver is given
MaxPatterns == 2
\* longest Config.Inventories list
MaxInv == 2
\* number of distinct random suffixes os.CreateTemp can draw per prefix
MaxTemp == 1
\* longest Config.ExtraVars list
MaxVars == 2

----------------------------------------------------------------------------
(* Strings.                                                                *)

\* The characters of the strings whose inside the code looks at.
Chars(s) ==
    CASE s = "s.yml"      -> <<"s", ".", "y", "m", "l">>
      [] s = "t.yml"      -> <<"t", ".", "y", "m", "l">>
      [] s = "*.yml"      -> <<"*", ".", "y", "m", "l">>
      [] s = "?.yml"      -> <<"?", ".", "y", "m", "l">>
      [] s = "n.c.p"      -> <<"n", ".", "c", ".", "p">>
      [] s = "req.yml"    -> <<"r", "e", "q", ".", "y", "m", "l">>
      [] s = "hosts"      -> <<"h", "o", "s", "t", "s">>
      [] s = "prod"       -> <<"p", "r", "o", "d">>
      [] s = "localhost," -> <<"l", "o", "c", "a", "l", "h", "o", "s", "t", ",">>
      [] s = ""           -> <<>>

\* Byte value of a character (ASCII), for the order sort.Strings uses.
Code(c) ==
    CASE c = "*" -> 42 [] c = "," -> 44 [] c = "." -> 46 [] c = "?" -> 63
      [] c = "_" -> 95 [] c = "a" -> 97 [] c = "c" -> 99 [] c = "e" -> 101
      [] c = "h" -> 104 [] c = "l" -> 108 [] c = "m" -> 109 [] c = "n" -> 110
      [] c = "o" -> 111 [] c = "p" -> 112 [] c = "q" -> 113 [] c = "r" -> 114
      [] c = "s" -> 115 [] c = "t" -> 116 [] c = "y" -> 121

RECURSIVE SeqLess(_, _)
\* a < b on strings, byte-wise
SeqLess(a, b) ==
    IF b = <<>> THEN FALSE
    ELSE IF a = <<>> THEN TRUE
    ELSE IF Code(Head(a)) # Code(Head(b)) THEN Code(Head(a)) < Code(Head(b))
    ELSE SeqLess(Tail(a), Tail(b))

StrLess(s, t) == SeqLess(Chars(s), Chars(t))

RECURSIVE SortStrings(_)
\* sort.Strings of a set of names
SortStrings(S) ==
    IF S = {} THEN <<>>
    ELSE LET m == CHOOSE x \in S : \A y \in S \ {x} : StrLess(x, y)
         IN  <<m>> \o SortStrings(S \ {m})

\* strings.Contains(s, c) for a one-character c
Contains(s, c) == \E i \in 1..Len(Chars(s)) : Chars(s)[i] = c

\* a decimal digit
Digit(d) ==
    CASE d = 0 -> "0" [] d = 1 -> "1" [] d = 2 -> "2" [] d = 3 -> "3"
      [] d = 4 -> "4" [] d = 5 -> "5" [] d = 6 -> "6" [] d = 7 -> "7"
      [] d = 8 -> "8" [] d = 9 -> "9"

RECURSIVE Itoa(_)
\* strconv.Itoa
Itoa(n) ==
    IF n < 0 THEN "-" \o Itoa(0 - n)
    ELSE IF n < 10 THEN Digit(n)
    ELSE Itoa(n \div 10) \o Digit(n % 10)

----------------------------------------------------------------------------
(* The file system the resolver and the builder look at.                   *)

\* every name the caller can have in the working directory
Names == {"s.yml", "t.yml", "*.yml", "n.c.p", "req.yml", "hosts", "prod",
          "ansible.cfg"}

\* os.Stat follows links: it succeeds on a file, fails on a dangling link
Stat(f, name) == name \in DOMAIN f /\ f[name] = "file"

\* os.Lstat and the directory listing see a dangling link too
Lstat(f, name) == name \in DOMAIN f /\ f[name] # "absent"

\* filepath.hasMeta: the pattern contains a glob metacharacter
hasMeta(pattern) ==
    \E i \in 1..Len(Chars(pattern)) : Chars(pattern)[i] \in {"*", "?", "[", "\\"}

RECURSIVE MatchChars(_, _)
\* filepath.Match on one path element: * is any run, ? any one character
MatchChars(p, n) ==
    IF p = <<>> THEN n = <<>>
    ELSE IF Head(p) = "*"
         THEN MatchChars(Tail(p), n) \/ (n # <<>> /\ MatchChars(p, Tail(n)))
         ELSE /\ n # <<>>
              /\ (Head(p) = "?" \/ Head(p) = Head(n))
              /\ MatchChars(Tail(p), Tail(n))

Match(pattern, name) == MatchChars(Chars(pattern), Chars(name))

\* filepath.Glob in the working directory: a pattern without metacharacter
\* is returned as is when Lstat finds it; otherwise the sorted directory
\* entries that match
Glob(f, pattern) ==
    IF ~hasMeta(pattern)
    THEN IF Lstat(f, pattern) THEN <<pattern>> ELSE <<>>
    ELSE SortStrings({n \in DOMAIN f : Lstat(f, n) /\ Match(pattern, n)})

----------------------------------------------------------------------------
(* Target resolution.                                                      *)

RECURSIVE StatAll(_, _, _)
\* the inner loop of resolvePlaybooks over the matches of one pattern
StatAll(f, files, acc) ==
    IF files = <<>> THEN [err |-> "", playbooks |-> acc]
    ELSE IF Stat(f, Head(files))
         THEN StatAll(f, Tail(files), Append(acc, Head(files)))
         ELSE [err |-> "playbook not found: " \o Head(files) \o ": stat "
                        \o Head(files) \o ": no such file or directory",
               playbooks |-> acc]

RECURSIVE ResolveLoopReversed(_, _, _)
\* resolvePlaybooks with the resolved paths prepended instead of appended
ResolveLoopReversed(f, patterns, acc) ==
    IF patterns = <<>> THEN [err |-> "", playbooks |-> acc]
    ELSE LET pattern == Head(patterns)
             files   == Glob(f, pattern)
         IN  IF Len(files) > 0
             THEN LET r == StatAll(f, files, <<>>)
                  IN  IF r.err # "" THEN r
                      ELSE ResolveLoopReversed(f, Tail(patterns), r.playbooks \o acc)
             ELSE IF Stat(f, pattern)
                  THEN ResolveLoopReversed(f, Tail(patterns), <<pattern>> \o acc)
                  ELSE [err |-> "playbook not found: " \o pattern,
                        playbooks |-> acc]

RECURSIVE ResolveLoopSkipping(_, _, _)
\* resolvePlaybooks as AnsiblePlaybook.playbooks did it: the matches are
\* appended unchecked and a pattern without match is skipped
ResolveLoopSkipping(f, patterns, acc) ==
    IF patterns = <<>> THEN [err |-> "", playbooks |-> acc]
    ELSE ResolveLoopSkipping(f, Tail(patterns), acc \o Glob(f, Head(patterns)))

RECURSIVE ResolveLoop(_, _, _)
\* the loop of resolvePlaybooks over Config.Playbooks
ResolveLoop(f, patterns, acc) ==
    IF patterns = <<>> THEN [err |-> "", playbooks |-> acc]
    ELSE LET pattern == Head(patterns)
             files   == Glob(f, pattern)
         IN  IF Len(files) > 0
             THEN LET r == StatAll(f, files, acc)
                  IN  IF r.err # "" THEN r
                      ELSE ResolveLoop(f, Tail(patterns), r.playbooks)
             ELSE IF Stat(f, pattern)
                  THEN ResolveLoop(f, Tail(patterns), Append(acc, pattern))
                  ELSE [err |-> "playbook not found: " \o pattern,
                        playbooks |-> acc]

\* Playbook.resolvePlaybooks: the error and the new Config.Playbooks
resolvePlaybooks(f, patterns) ==
    IF Len(patterns) = 0
    THEN [err |-> "no playbooks specified", playbooks |-> patterns]
    ELSE LET r == ResolveLoop(f, patterns, <<>>)
         IN  IF r.err # "" THEN [err |-> r.err, playbooks |-> patterns]
             ELSE IF Len(r.playbooks) = 0
                  THEN [err |-> "no playbook files found", playbooks |-> patterns]
                  ELSE [err |-> "", playbooks |-> r.playbooks]

----------------------------------------------------------------------------
(* Secret contents.                                                        *)

RECURSIVE Join(_)
\* the string made of the pieces
Join(ps) == IF ps = <<>> THEN "" ELSE Head(ps) \o Join(Tail(ps))

Begin(type) == "-----BEGIN " \o type \o "PRIVATE KEY-----"
End(type) == "-----END " \o type \o "PRIVATE KEY-----"

\* the contents of the model, each cut into its lines and line terminators
ContentPieces == {
    <<Begin("RSA "), "\n", "TEST-KEY-DATA", "\n", End("RSA ")>>,
    <<Begin("RSA "), "\n", "TEST-KEY-DATA", "\n", End("RSA "), "\n">>,
    <<Begin("RSA "), "\r", "\n", "TEST-KEY-DATA", "\r", "\n", End("RSA "), "\r", "\n">>,
    <<Begin("OPENSSH "), "\n", "TEST-KEY-DATA", "\n", End("OPENSSH "), "\n">>,
    <<Begin(""), "\n", "TEST-KEY-DATA", "\n", End(""), "\n">>,
    <<Begin("RSA "), "\n", "TEST-KEY-DATA", "\n", End("EC ")>>,
    <<End("RSA "), "\n", "TEST-KEY-DATA", "\n", Begin("RSA ")>>,
    <<Begin("RSA "), "\n", "TEST-KEY-DATA", "\n">>,
    <<"TEST-KEY-DATA", "\n", End("RSA "), "\n">>,
    <<"This is not a valid SSH key">>,
    <<"my_vault_password">>,
    <<"line1", "\r", "line2">>,
    <<"line1", "\r", "\n", "line2", "\n", "line3", "\r", "\n">>,
    <<>> }

Contents == {Join(ps) : ps \in ContentPieces}

\* the lines and line terminators of a content
Bytes(s) == CHOOSE ps \in ContentPieces : Join(ps) = s

\* a well-formed key and a password, as Exec is given them
KeyRSA == Join(<<Begin("RSA "), "\n", "TEST-KEY-DATA", "\n", End("RSA ")>>)
VaultSecret == "my_vault_password"

\* the key types of a PEM private key envelope
KeyTypes == {"RSA ", "OPENSSH ", "EC ", "DSA ", ""}

\* isValidSSHKey: a BEGIN marker followed by the END marker of its type
isValidSSHKey(content) ==
    LET ps == Bytes(content) IN
    \E type \in KeyTypes : \E i \in 1..Len(ps) : \E j \in (i + 1)..Len(ps) :
        ps[i] = Begin(type) /\ ps[j] = End(type)

----------------------------------------------------------------------------
(* Staging of secrets in Config.TempDir.                                   *)

\* the permission Exec asks for, 0600
Perm0600 == 384

\* the prefixes writeTempFile is called with
KeyPrefix == "ansible-key-"
VaultPrefix == "ansible-vault-"
Prefixes == {KeyPrefix, VaultPrefix, "ssh-key-", "my-keycloak-config-"}

\* the names os.CreateTemp can return for a prefix: dir/prefix<random>
TempNamesOf(dir, prefix) == {dir \o "/" \o prefix \o Itoa(k) : k \in 1..MaxTemp}

TempNames == UNION {TempNamesOf("/tmp", prefix) : prefix \in Prefixes}

NoFile == [exists |-> FALSE, content |-> "", perm |-> 0]

\* the names os.CreateTemp may still pick: it opens with O_EXCL
FreeNames(t, dir, prefix) == {n \in TempNamesOf(dir, prefix) : ~t[n].exists}

\* a file created as os.Create does, mode 0666
CreateTempUnrestricted(t, name) ==
    [t EXCEPT ![name] = [exists |-> TRUE, content |-> "", perm |-> 438]]

\* os.CreateTemp: a new empty file, mode 0600
CreateTemp(t, name) ==
    [t EXCEPT ![name] = [exists |-> TRUE, content |-> "", perm |-> Perm0600]]

\* tmpFile.Write([]byte(content))
WriteFile(t, name, content) == [t EXCEPT ![name].content = content]

\* os.Chmod(filename, perm)
Chmod(t, name, perm) == [t EXCEPT ![name].perm = perm]

\* os.Remove(f); the error for a missing file is dropped by every caller
Remove(t, name) == IF name \in DOMAIN t THEN [t EXCEPT ![name] = NoFile] ELSE t

\* where a writeTempFile call can fail
FailPoints == {"none", "create", "write", "close", "chmod"}

\* writeTempFile without the os.Remove on its chmod error path
writeTempFileLeaky(t, name, prefix, content, perm, failAt) ==
    IF failAt = "create"
    THEN [tmp |-> t, file |-> "", err |-> "could not create temp file: EIO"]
    ELSE LET t1 == CreateTemp(t, name) IN
    IF failAt = "write"
    THEN [tmp |-> Remove(t1, name), file |-> "",
          err |-> "could not write temp file: EIO"]
    ELSE LET t2 == WriteFile(t1, name, content) IN
    IF failAt = "close"
    THEN [tmp |-> Remove(t2, name), file |-> "",
          err |-> "could not close temp file: EIO"]
    ELSE IF failAt = "chmod"
    THEN [tmp |-> t2, file |-> "",
          err |-> "could not set permissions on temp file: EIO"]
    ELSE [tmp |-> Chmod(t2, name, perm), file |-> name, err |-> ""]

\* a writeTempFile that validates whatever is staged under a prefix holding
\* the text key
writeTempFileKeyHeuristic(t, name, prefix, content, perm, failAt) ==
    IF prefix \in {"ansible-key-", "ssh-key-", "my-keycloak-config-"}
           /\ ~isValidSSHKey(content)
    THEN [tmp |-> t, file |-> "", err |-> "invalid SSH key format"]
    ELSE writeTempFileLeaky(t, name, prefix, content, perm, failAt)

\* writeTempFile(tempDir, prefix, content, perm): name is the file name
\* os.CreateTemp draws, failAt the system call that fails (if any)
writeTempFile(t, name, prefix, content, perm, failAt) ==
    IF failAt = "create"
    THEN [tmp |-> t, file |-> "", err |-> "could not create temp file: EIO"]
    ELSE LET t1 == CreateTemp(t, name) IN
    IF failAt = "write"
    THEN [tmp |-> Remove(t1, name), file |-> "",
          err |-> "could not write temp file: EIO"]
    ELSE LET t2 == WriteFile(t1, name, content) IN
    IF failAt = "close"
    THEN [tmp |-> Remove(t2, name), file |-> "",
          err |-> "could not close temp file: EIO"]
    ELSE IF failAt = "chmod"
    THEN [tmp |-> Remove(t2, name), file |-> "",
          err |-> "could not set permissions on temp file: EIO"]
    ELSE [tmp |-> Chmod(t2, name, perm), file |-> name, err |-> ""]

\* the file name a writeTempFile call created on disk ({} if none)
MadeBy(name, failAt) == IF failAt = "create" THEN {} ELSE {name}

\* a prepareTempFiles that blanks the secrets of the configuration once they are staged
prepareTempFilesScrubbing(c, tf, t, kn, kf, vn, vf) ==
    LET k == IF c.PrivateKey # ""
             THEN writeTempFile(t, kn, KeyPrefix, c.PrivateKey, Perm0600, kf)
             ELSE [tmp |-> t, file |-> "", err |-> ""]
        kmade == IF c.PrivateKey # "" THEN MadeBy(kn, kf) ELSE {}
    IN  IF k.err # ""
        THEN [cfg |-> c, tempFiles |-> tf, tmp |-> k.tmp, made |-> kmade,
              err |-> "could not create private key file: " \o k.err]
        ELSE
    LET c1  == IF c.PrivateKey # ""
               THEN [c EXCEPT !.PrivateKeyFile = k.file, !.PrivateKey = ""] ELSE c
        tf1 == IF c.PrivateKey # "" THEN Append(tf, k.file) ELSE tf
        v == IF c.VaultPassword # ""
             THEN writeTempFile(k.tmp, vn, VaultPrefix, c.VaultPassword, Perm0600, vf)
             ELSE [tmp |-> k.tmp, file |-> "", err |-> ""]
        vmade == IF c.VaultPassword # "" THEN MadeBy(vn, vf) ELSE {}
    IN  IF v.err # ""
        THEN [cfg |-> c1, tempFiles |-> tf1, tmp |-> v.tmp, made |-> kmade \cup vmade,
              err |-> "could not create vault password file: " \o v.err]
        ELSE
    LET c2  == IF c.VaultPassword # ""
               THEN [c1 EXCEPT !.VaultPasswordFile = v.file, !.VaultPassword = ""]
               ELSE c1
        tf2 == IF c.VaultPassword # "" THEN Append(tf1, v.file) ELSE tf1
    IN  [cfg |-> c2, tempFiles |-> tf2, tmp |-> v.tmp, made |-> kmade \cup vmade,
         err |-> ""]

\* Playbook.prepareTempFiles: kn, kf are the name and the failure of the key
\* file's writeTempFile, vn, vf those of the vault password file's
prepareTempFiles(c, tf, t, kn, kf, vn, vf) ==
    LET k == IF c.PrivateKey # ""
             THEN writeTempFile(t, kn, KeyPrefix, c.PrivateKey, Perm0600, kf)
             ELSE [tmp |-> t, file |-> "", err |-> ""]
        kmade == IF c.PrivateKey # "" THEN MadeBy(kn, kf) ELSE {}
    IN  IF k.err # ""
        THEN [cfg |-> c, tempFiles |-> tf, tmp |-> k.tmp, made |-> kmade,
              err |-> "could not create private key file: " \o k.err]
        ELSE
    LET c1  == IF c.PrivateKey # "" THEN [c EXCEPT !.PrivateKeyFile = k.file] ELSE c
        tf1 == IF c.PrivateKey # "" THEN Append(tf, k.file) ELSE tf
        v == IF c.VaultPassword # ""
             THEN writeTempFile(k.tmp, vn, VaultPrefix, c.VaultPassword, Perm0600, vf)
             ELSE [tmp |-> k.tmp, file |-> "", err |-> ""]
        vmade == IF c.VaultPassword # "" THEN MadeBy(vn, vf) ELSE {}
    IN  IF v.err # ""
        THEN [cfg |-> c1, tempFiles |-> tf1, tmp |-> v.tmp, made |-> kmade \cup vmade,
              err |-> "could not create vault password file: " \o v.err]
        ELSE
    LET c2  == IF c.VaultPassword # "" THEN [c1 EXCEPT !.VaultPasswordFile = v.file] ELSE c1
        tf2 == IF c.VaultPassword # "" THEN Append(tf1, v.file) ELSE tf1
    IN  [cfg |-> c2, tempFiles |-> tf2, tmp |-> v.tmp, made |-> kmade \cup vmade,
         err |-> ""]

\* a release that removes whatever the two path fields of the
\* configuration name, as the deferred os.Remove calls of AnsiblePlaybook did
cleanupTempFilesByConfig(t, tf) ==
    Remove(Remove(t, cfg.PrivateKeyFile), cfg.VaultPasswordFile)

RECURSIVE cleanupTempFilesStopping(_, _)
\* cleanupTempFiles returning at the first os.Remove that fails
cleanupTempFilesStopping(t, tf) ==
    IF tf = <<>> THEN t
    ELSE IF ~t[Head(tf)].exists THEN t
    ELSE cleanupTempFilesStopping(Remove(t, Head(tf)), Tail(tf))

RECURSIVE cleanupTempFiles(_, _)
\* Playbook.cleanupTempFiles: os.Remove of every recorded file
cleanupTempFiles(t, tf) ==
    IF tf = <<>> THEN t
    ELSE cleanupTempFiles(Remove(t, Head(tf)), Tail(tf))

----------------------------------------------------------------------------
(* The configuration.                                                      *)

\* NewPlaybook: the zero Config with Forks 5 and TempDir os.TempDir()
NewPlaybook ==
    [Become |-> FALSE, BecomeMethod |-> "", BecomeUser |-> "", User |-> "",
     PrivateKey |-> "", PrivateKeyFile |-> "",
     AskBecomePass |-> FALSE, AskPass |-> FALSE,
     Check |-> FALSE, Diff |-> FALSE, FlushCache |-> FALSE,
     ForceHandlers |-> FALSE, SyntaxCheck |-> FALSE, ListHosts |-> FALSE,
     Step |-> FALSE, Connection |-> "", Timeout |-> 0, Forks |-> 5,
     SSHCommonArgs |-> "", SSHExtraArgs |-> "", SCPExtraArgs |-> "",
     SFTPExtraArgs |-> "", SSHTransferMethod |-> "",
     Inventories |-> <<>>, Playbooks |-> <<>>, Limit |-> "", ExtraVars |-> <<>>,
     StartAtTask |-> "", Tags |-> "", SkipTags |-> "", Verbose |-> 0,
     NoColor |-> FALSE,
     VaultID |-> "", VaultPassword |-> "", VaultPasswordFile |-> "",
     AskVaultPass |-> FALSE,
     FactCaching |-> "", FactCachingTimeout |-> 0,
     GalaxyFile |-> "", GalaxyAPIKey |-> "", GalaxyAPIServerURL |-> "",
     GalaxyCollectionsPath |-> "", GalaxyForce |-> FALSE,
     GalaxyForceWithDeps |-> FALSE, GalaxyNoDeps |-> FALSE,
     GalaxyIgnoreCerts |-> FALSE, GalaxyPre |-> FALSE, GalaxyTimeout |-> 0,
     GalaxyUpgrade |-> FALSE,
     CallbackWhitelist |-> "", PollInterval |-> 0, GatherSubset |-> "",
     GatherTimeout |-> 0, StrategyPlugin |-> "", MaxFailPercentage |-> 0,
     AnyErrorsFatal |-> FALSE, ConfigFile |-> "",
     TempDir |-> "/tmp"]

----------------------------------------------------------------------------
(* Command construction.                                                   *)

\* exec.CommandContext(ctx, name, args...): a command bound to Exec's context
\* (name is cmd.Args[0], path is cmd.Path, args is cmd.Args[1:])
CommandContext(name, args) ==
    [name |-> name, path |-> name, args |-> args, ctx |-> TRUE, env |-> <<>>]

\* exec.Command(name, args...): a command no context can kill
Command(name, args) ==
    [name |-> name, path |-> name, args |-> args, ctx |-> FALSE, env |-> <<>>]

\* argOption{flag, value}; kind is the dynamic type of value
Opt(flag, kind, value) == [flag |-> flag, kind |-> kind, value |-> value]

RECURSIVE AppendNonEmpty(_, _, _)
\* one flag-value pair per non-empty item
AppendNonEmpty(args, flag, items) ==
    IF items = <<>> THEN args
    ELSE AppendNonEmpty(IF Head(items) # "" THEN args \o <<flag, Head(items)>>
                        ELSE args, flag, Tail(items))

\* an applyOption that takes only a positive integer as set
applyOptionPositiveInts(args, opt) ==
    CASE opt.kind = "string" ->
            IF opt.value # "" THEN args \o <<opt.flag, opt.value>> ELSE args
      [] opt.kind = "int" ->
            IF opt.value > 0 THEN args \o <<opt.flag, Itoa(opt.value)>> ELSE args
      [] opt.kind = "bool" ->
            IF opt.value THEN Append(args, opt.flag) ELSE args
      [] opt.kind = "list" ->
            IF Len(opt.value) > 0 THEN AppendNonEmpty(args, opt.flag, opt.value)
            ELSE args
      [] OTHER -> args

\* applyOption: the type switch over opt.value
applyOption(args, opt) ==
    CASE opt.kind = "string" ->
            IF opt.value # "" THEN args \o <<opt.flag, opt.value>> ELSE args
      [] opt.kind = "int" ->
            IF opt.value # 0 THEN args \o <<opt.flag, Itoa(opt.value)>> ELSE args
      [] opt.kind = "bool" ->
            IF opt.value THEN Append(args, opt.flag) ELSE args
      [] opt.kind = "list" ->
            IF Len(opt.value) > 0 THEN AppendNonEmpty(args, opt.flag, opt.value)
            ELSE args
      [] OTHER -> args

RECURSIVE applyOptions(_, _)
\* for _, opt := range opts { args = applyOption(args, opt) }
applyOptions(args, opts) ==
    IF opts = <<>> THEN args
    ELSE applyOptions(applyOption(args, Head(opts)), Tail(opts))

RECURSIVE VFlag(_, _)
\* the loop of addVerbose: one v per i < level && i < 4
VFlag(i, level) ==
    IF i < level /\ i < 4 THEN "v" \o VFlag(i + 1, level) ELSE ""

RECURSIVE Repeat(_, _)
\* strings.Repeat(x, n)
Repeat(x, n) == IF n <= 0 THEN "" ELSE x \o Repeat(x, n - 1)

\* the verbosity flag as AnsiblePlaybook rendered it: one v per level
addVerboseUnclamped(args, level) ==
    IF level > 0 THEN Append(args, "-" \o Repeat("v", level)) ELSE args

\* addVerbose
addVerbose(args, level) ==
    IF level <= 0 THEN args ELSE Append(args, "-" \o VFlag(0, level))

RECURSIVE appendExtraVarsAll(_, _)
\* the extra vars as AnsiblePlaybook rendered them: a pair for every entry
appendExtraVarsAll(args, extraVars) ==
    IF extraVars = <<>> THEN args
    ELSE appendExtraVarsAll(args \o <<"--extra-vars", Head(extraVars)>>,
                            Tail(extraVars))

\* appendExtraVars
appendExtraVars(args, extraVars) == AppendNonEmpty(args, "--extra-vars", extraVars)

\* Playbook.versionCommand
versionCommand == CommandContext("ansible", <<"--version">>)

\* buildGalaxyCommand made with exec.Command, as AnsiblePlaybook built it
buildGalaxyCommandNoCtx(c, base, opts) ==
    Command("ansible-galaxy", addVerbose(applyOptions(base, opts), c.Verbose))

\* Playbook.buildGalaxyCommand
buildGalaxyCommand(c, base, opts) ==
    CommandContext("ansible-galaxy", addVerbose(applyOptions(base, opts), c.Verbose))

\* the option table of Playbook.galaxyRoleCommand
galaxyRoleOptions(c) == <<
    Opt("--role-file", "string", c.GalaxyFile),
    Opt("--server", "string", c.GalaxyAPIServerURL),
    Opt("--api-key", "string", c.GalaxyAPIKey),
    Opt("--ignore-certs", "bool", c.GalaxyIgnoreCerts),
    Opt("--timeout", "int", c.GalaxyTimeout),
    Opt("--force", "bool", c.GalaxyForce),
    Opt("--no-deps", "bool", c.GalaxyNoDeps),
    Opt("--force-with-deps", "bool", c.GalaxyForceWithDeps) >>

\* Playbook.galaxyRoleCommand
galaxyRoleCommand(c) ==
    buildGalaxyCommand(c, <<"role", "install">>, galaxyRoleOptions(c))

\* the option table of Playbook.galaxyCollectionCommand
galaxyCollectionOptions(c) == <<
    Opt("--requirements-file", "string", c.GalaxyFile),
    Opt("--server", "string", c.GalaxyAPIServerURL),
    Opt("--api-key", "string", c.GalaxyAPIKey),
    Opt("--ignore-certs", "bool", c.GalaxyIgnoreCerts),
    Opt("--timeout", "int", c.GalaxyTimeout),
    Opt("--force-with-deps", "bool", c.GalaxyForceWithDeps),
    Opt("--collections-path", "string", c.GalaxyCollectionsPath),
    Opt("--pre", "bool", c.GalaxyPre),
    Opt("--upgrade", "bool", c.GalaxyUpgrade),
    Opt("--force", "bool", c.GalaxyForce) >>

\* Playbook.galaxyCollectionCommand
galaxyCollectionCommand(c) ==
    buildGalaxyCommand(c, <<"collection", "install">>, galaxyCollectionOptions(c))

\* an option table that hands the secrets over inline
ansibleOptionsInline(c) == <<
    Opt("--check", "bool", c.Check),
    Opt("--diff", "bool", c.Diff),
    Opt("--flush-cache", "bool", c.FlushCache),
    Opt("--force-handlers", "bool", c.ForceHandlers),
    Opt("--step", "bool", c.Step),
    Opt("--no-color", "bool", c.NoColor),
    Opt("--forks", "int", c.Forks),
    Opt("--user", "string", c.User),
    Opt("--connection", "string", c.Connection),
    Opt("--timeout", "int", c.Timeout),
    Opt("--limit", "string", c.Limit),
    Opt("--ssh-common-args", "string", c.SSHCommonArgs),
    Opt("--sftp-extra-args", "string", c.SFTPExtraArgs),
    Opt("--scp-extra-args", "string", c.SCPExtraArgs),
    Opt("--ssh-extra-args", "string", c.SSHExtraArgs),
    Opt("--ssh-transfer-method", "string", c.SSHTransferMethod),
    Opt("--ask-become-pass", "bool", c.AskBecomePass),
    Opt("--ask-pass", "bool", c.AskPass),
    Opt("--ask-vault-pass", "bool", c.AskVaultPass),
    Opt("--become", "bool", c.Become),
    Opt("--become-method", "string", c.BecomeMethod),
    Opt("--become-user", "string", c.BecomeUser),
    Opt("--private-key", "string", c.PrivateKey),
    Opt("--vault-id", "string", c.VaultID),
    Opt("--vault-password-file", "string", c.VaultPassword),
    Opt("--callback-whitelist", "string", c.CallbackWhitelist),
    Opt("--poll-interval", "int", c.PollInterval),
    Opt("--strategy", "string", c.StrategyPlugin),
    Opt("--max-fail-percentage", "int", c.MaxFailPercentage),
    Opt("--any-errors-fatal", "bool", c.AnyErrorsFatal),
    Opt("--gather-subset", "string", c.GatherSubset),
    Opt("--gather-timeout", "int", c.GatherTimeout),
    Opt("--tags", "string", c.Tags),
    Opt("--skip-tags", "string", c.SkipTags),
    Opt("--start-at-task", "string", c.StartAtTask) >>

\* the option table of Playbook.ansibleCommand
ansibleOptions(c) == <<
    Opt("--check", "bool", c.Check),
    Opt("--diff", "bool", c.Diff),
    Opt("--flush-cache", "bool", c.FlushCache),
    Opt("--force-handlers", "bool", c.ForceHandlers),
    Opt("--step", "bool", c.Step),
    Opt("--no-color", "bool", c.NoColor),
    Opt("--forks", "int", c.Forks),
    Opt("--user", "string", c.User),
    Opt("--connection", "string", c.Connection),
    Opt("--timeout", "int", c.Timeout),
    Opt("--limit", "string", c.Limit),
    Opt("--ssh-common-args", "string", c.SSHCommonArgs),
    Opt("--sftp-extra-args", "string", c.SFTPExtraArgs),
    Opt("--scp-extra-args", "string", c.SCPExtraArgs),
    Opt("--ssh-extra-args", "string", c.SSHExtraArgs),
    Opt("--ssh-transfer-method", "string", c.SSHTransferMethod),
    Opt("--ask-become-pass", "bool", c.AskBecomePass),
    Opt("--ask-pass", "bool", c.AskPass),
    Opt("--ask-vault-pass", "bool", c.AskVaultPass),
    Opt("--become", "bool", c.Become),
    Opt("--become-method", "string", c.BecomeMethod),
    Opt("--become-user", "string", c.BecomeUser),
    Opt("--private-key", "string", c.PrivateKeyFile),
    Opt("--vault-id", "string", c.VaultID),
    Opt("--vault-password-file", "string", c.VaultPasswordFile),
    Opt("--callback-whitelist", "string", c.CallbackWhitelist),
    Opt("--poll-interval", "int", c.PollInterval),
    Opt("--strategy", "string", c.StrategyPlugin),
    Opt("--max-fail-percentage", "int", c.MaxFailPercentage),
    Opt("--any-errors-fatal", "bool", c.AnyErrorsFatal),
    Opt("--gather-subset", "string", c.GatherSubset),
    Opt("--gather-timeout", "int", c.GatherTimeout),
    Opt("--tags", "string", c.Tags),
    Opt("--skip-tags", "string", c.SkipTags),
    Opt("--start-at-task", "string", c.StartAtTask) >>

\* ansibleCommand rendering the extra vars right after the inventory, as
\* AnsiblePlaybook.ansibleCommand did
ansibleCommandExtraVarsFirst(c, inventory) ==
    LET args == <<"--inventory", inventory>> IN
    IF c.SyntaxCheck \/ c.ListHosts
    THEN LET flag == IF c.ListHosts THEN "--list-hosts" ELSE "--syntax-check"
         IN  CommandContext("ansible-playbook", Append(args, flag) \o c.Playbooks)
    ELSE CommandContext("ansible-playbook",
            addVerbose(applyOptions(appendExtraVars(args, c.ExtraVars),
                                    ansibleOptions(c)),
                       c.Verbose) \o c.Playbooks)

\* ansibleCommand appending the flag of every mode that is set
ansibleCommandBothModes(c, inventory) ==
    LET args == <<"--inventory", inventory>> IN
    IF c.SyntaxCheck \/ c.ListHosts
    THEN CommandContext("ansible-playbook",
            args \o (IF c.SyntaxCheck THEN <<"--syntax-check">> ELSE <<>>)
                 \o (IF c.ListHosts THEN <<"--list-hosts">> ELSE <<>>)
                 \o c.Playbooks)
    ELSE CommandContext("ansible-playbook",
            addVerbose(appendExtraVars(applyOptions(args, ansibleOptions(c)),
                                       c.ExtraVars),
                       c.Verbose) \o c.Playbooks)

\* ansibleCommand appending the mode flag without returning early
ansibleCommandNoReturn(c, inventory) ==
    LET args == <<"--inventory", inventory>>
        flag == IF c.ListHosts THEN "--list-hosts" ELSE "--syntax-check"
        args1 == IF c.SyntaxCheck \/ c.ListHosts THEN Append(args, flag) ELSE args
    IN  CommandContext("ansible-playbook",
            addVerbose(appendExtraVars(applyOptions(args1, ansibleOptions(c)),
                                       c.ExtraVars),
                       c.Verbose) \o c.Playbooks)

\* Playbook.ansibleCommand
ansibleCommand(c, inventory) ==
    LET args == <<"--inventory", inventory>> IN
    IF c.SyntaxCheck \/ c.ListHosts
    THEN LET flag == IF c.ListHosts THEN "--list-hosts" ELSE "--syntax-check"
         IN  CommandContext("ansible-playbook", Append(args, flag) \o c.Playbooks)
    ELSE CommandContext("ansible-playbook",
            addVerbose(appendExtraVars(applyOptions(args, ansibleOptions(c)),
                                       c.ExtraVars),
                       c.Verbose) \o c.Playbooks)

\* validateInventory without the inline case: os.Stat on every inventory
validateInventoryStatAll(f, inv) ==
    IF ~Stat(f, inv) THEN "inventory not found: " \o inv ELSE ""

\* validateInventory: "" is nil
validateInventory(f, inv) ==
    IF Contains(inv, ",") THEN ""
    ELSE IF ~Stat(f, inv) THEN "inventory not found: " \o inv
    ELSE ""

RECURSIVE InventoryLoopPartial(_, _, _, _)
\* the inventory loop of buildCommands returning what it has built so far,
\* without the error, when an inventory is missing
InventoryLoopPartial(c, f, invs, acc) ==
    IF invs = <<>> THEN [cmds |-> acc, err |-> ""]
    ELSE IF validateInventory(f, Head(invs)) # ""
         THEN [cmds |-> acc, err |-> ""]
         ELSE InventoryLoopPartial(c, f, Tail(invs),
                                   Append(acc, ansibleCommand(c, Head(invs))))

RECURSIVE InventoryLoop(_, _, _, _)
\* the inventory loop of buildCommands
InventoryLoop(c, f, invs, acc) ==
    IF invs = <<>> THEN [cmds |-> acc, err |-> ""]
    ELSE LET e == validateInventory(f, Head(invs))
         IN  IF e # "" THEN [cmds |-> <<>>, err |-> e]
             ELSE InventoryLoop(c, f, Tail(invs),
                                Append(acc, ansibleCommand(c, Head(invs))))

\* buildCommands with the galaxy commands appended after the playbook runs
buildCommandsGalaxyLast(c, f) ==
    LET r == InventoryLoop(c, f, c.Inventories, <<versionCommand>>)
    IN  IF c.GalaxyFile # "" /\ ~Stat(f, c.GalaxyFile)
        THEN [cmds |-> <<>>, err |-> "galaxy file not found: " \o c.GalaxyFile]
        ELSE IF r.err # "" \/ c.GalaxyFile = "" THEN r
        ELSE [cmds |-> r.cmds \o <<galaxyRoleCommand(c), galaxyCollectionCommand(c)>>,
              err |-> ""]

\* buildCommands without the os.Stat of the galaxy file
buildCommandsGalaxyUnchecked(c, f) ==
    InventoryLoop(c, f, c.Inventories,
                  IF c.GalaxyFile # ""
                  THEN <<versionCommand, galaxyRoleCommand(c), galaxyCollectionCommand(c)>>
                  ELSE <<versionCommand>>)

\* buildCommands appending to the commands the Playbook built before
\* instead of to a slice of its own
buildCommandsAccumulating(c, f) ==
    IF c.GalaxyFile # "" /\ ~Stat(f, c.GalaxyFile)
    THEN [cmds |-> <<>>, err |-> "galaxy file not found: " \o c.GalaxyFile]
    ELSE InventoryLoop(c, f, c.Inventories,
                       cmds \o <<versionCommand>> \o
                           (IF c.GalaxyFile # ""
                            THEN <<galaxyRoleCommand(c), galaxyCollectionCommand(c)>>
                            ELSE <<>>))

\* Playbook.buildCommands: the commands (nil on error) and the error
buildCommands(c, f) ==
    LET cmds0 == <<versionCommand>> IN
    IF c.GalaxyFile # "" /\ ~Stat(f, c.GalaxyFile)
    THEN [cmds |-> <<>>, err |-> "galaxy file not found: " \o c.GalaxyFile]
    ELSE LET cmds1 == IF c.GalaxyFile # ""
                      THEN cmds0 \o <<galaxyRoleCommand(c), galaxyCollectionCommand(c)>>
                      ELSE cmds0
         IN  InventoryLoop(c, f, c.Inventories, cmds1)

\* buildCustomEnvVars setting each variable whenever its field is set
buildCustomEnvVarsUnchecked(c, f) ==
    (IF c.ConfigFile # ""
     THEN <<"ANSIBLE_CONFIG=" \o c.ConfigFile>> ELSE <<>>)
    \o (IF c.FactCaching # ""
        THEN <<"ANSIBLE_FACT_CACHING=" \o c.FactCaching>> ELSE <<>>)
    \o (IF c.FactCachingTimeout # 0
        THEN <<"ANSIBLE_FACT_CACHING_TIMEOUT=" \o Itoa(c.FactCachingTimeout)>>
        ELSE <<>>)

\* buildCustomEnvVars
buildCustomEnvVars(c, f) ==
    (IF c.ConfigFile # "" /\ Stat(f, c.ConfigFile)
     THEN <<"ANSIBLE_CONFIG=" \o c.ConfigFile>> ELSE <<>>)
    \o (IF c.FactCaching # ""
        THEN <<"ANSIBLE_FACT_CACHING=" \o c.FactCaching>> ELSE <<>>)
    \o (IF c.FactCachingTimeout > 0
        THEN <<"ANSIBLE_FACT_CACHING_TIMEOUT=" \o Itoa(c.FactCachingTimeout)>>
        ELSE <<>>)

\* os.Environ() of the host process
HostEnv == <<"PATH=/usr/bin", "ANSIBLE_FORCE_COLOR=0">>

\* the environment runCommands gives every command
CommandEnv(c, f) ==
    HostEnv \o <<"ANSIBLE_FORCE_COLOR=1", "ANSIBLE_GALAXY_DISPLAY_PROGRESS=0">>
            \o buildCustomEnvVars(c, f)

----------------------------------------------------------------------------
(* Exec.                                                                   *)

\* the Config.Playbooks lists Exec is run with
ExecPlaybooks == {<<>>, <<"s.yml">>, <<"*.yml">>, <<"s.yml", "*.yml">>}

\* the inventories Exec is run with: an inline one and a file
ExecInventories == {"localhost,", "hosts"}

\* the files that may exist when Exec runs
ExecNames == {"s.yml", "req.yml", "hosts"}

\* the elements of a sequence
Range(q) == {q[i] : i \in 1..Len(q)}

SeqsUpTo(S, n) == UNION {[1..k -> S] : k \in 0..n}

NoFiles == [n \in Names |-> "absent"]
NoTemp == [n \in TempNames |-> NoFile]
NoCall == [prefix |-> "", content |-> "", perm |-> 0, file |-> "", err |-> ""]

\* exec.LookPath as exec.Command applies it to a bare name: cmd.Path is
\* the file found in $PATH, or the name itself when none is found
LookPath(name, found) == IF found THEN "/usr/bin/" \o name ELSE name

\* filepath.Base(cmd.Path): the last element of the path
Base(path) ==
    CASE path = "/usr/bin/ansible"          -> "ansible"
      [] path = "/usr/bin/ansible-galaxy"   -> "ansible-galaxy"
      [] path = "/usr/bin/ansible-playbook" -> "ansible-playbook"
      [] OTHER -> path

\* errors.Wrap(err, msg)
Wrap(cause, msg) == msg \o ": " \o cause

\* the error runCommands returns as AnsiblePlaybook.Exec did: the bare cause
RunErrorBare(cmd, i, n, cause) == cause

\* the error runCommands returns for command i of n
RunError(cmd, i, n, cause) ==
    Wrap(cause, "error executing " \o Base(cmd.path) \o " (command "
                \o Itoa(i) \o "/" \o Itoa(n) \o ")")

Init ==
    /\ \E pl \in ExecPlaybooks, iv \in SeqsUpTo(ExecInventories, MaxInv),
          k \in {"", KeyRSA}, v \in {"", VaultSecret}, g \in {"", "req.yml"} :
          cfg = [NewPlaybook EXCEPT !.Playbooks = pl, !.Inventories = iv,
                                    !.PrivateKey = k, !.VaultPassword = v,
                                    !.GalaxyFile = g]
    /\ \E present \in SUBSET ExecNames :
          fs = [n \in Names |-> IF n \in present THEN "file" ELSE "absent"]
    /\ tempFiles = <<>>
    /\ tmp = NoTemp
    /\ ctxDone = FALSE
    /\ pc = "idle"
    /\ err = ""
    /\ cmds = <<>>
    /\ idx = 0
    /\ wt = NoCall
    /\ given = cfg.Playbooks
    /\ created = {}
    /\ started = <<>>
    /\ results = <<>>
    /\ stages = <<>>

\* where Exec goes after resolvePlaybooks returned e
AfterResolve(e) == IF e # "" THEN "cleanup" ELSE "prepare"

\* where Exec goes after prepareTempFiles returned e
AfterPrepare(e) == IF e # "" THEN "cleanup" ELSE "build"

\* where Exec goes after buildCommands returned e
AfterBuild(e) == IF e # "" THEN "cleanup" ELSE "run"

\* runCommands' loop going on to the next command whatever cmd.Run returned
AfterRunContinuing(i, n, e) == IF i < n THEN "run" ELSE "cleanup"

\* where runCommands goes after cmd.Run of command i of n returned e
AfterRun(i, n, e) ==
    IF e # "" THEN "cleanup" ELSE IF i < n THEN "run" ELSE "cleanup"

\* Exec: resolvePlaybooks and the check of its error
ExecResolve ==
    /\ pc = "idle"
    /\ LET r == resolvePlaybooks(fs, cfg.Playbooks) IN
       /\ cfg' = [cfg EXCEPT !.Playbooks = r.playbooks]
       /\ err' = IF r.err # "" THEN Wrap(r.err, "failed to resolve playbooks") ELSE ""
       /\ pc' = AfterResolve(r.err)
    /\ stages' = Append(stages, "resolve")
    /\ UNCHANGED <<tempFiles, fs, tmp, ctxDone, cmds, idx, wt, given, created,
                   started, results>>

\* Exec: prepareTempFiles and the check of its error
ExecPrepare ==
    /\ pc = "prepare"
    /\ \E kf \in FailPoints, vf \in FailPoints,
          kn \in FreeNames(tmp, cfg.TempDir, KeyPrefix) \cup {""},
          vn \in FreeNames(tmp, cfg.TempDir, VaultPrefix) \cup {""} :
         /\ (kn = "") = (kf = "create")
         /\ (vn = "") = (vf = "create")
         /\ LET r == prepareTempFiles(cfg, tempFiles, tmp, kn, kf, vn, vf) IN
            /\ cfg' = r.cfg
            /\ tempFiles' = r.tempFiles
            /\ tmp' = r.tmp
            /\ created' = created \cup r.made
            /\ err' = IF r.err # ""
                      THEN Wrap(r.err, "failed to prepare temporary files") ELSE ""
            /\ pc' = AfterPrepare(r.err)
    /\ stages' = Append(stages, "stage")
    /\ UNCHANGED <<fs, ctxDone, cmds, idx, wt, given, started, results>>

\* Exec: buildCommands and the check of its error
ExecBuild ==
    /\ pc = "build"
    /\ LET r == buildCommands(cfg, fs) IN
       /\ cmds' = r.cmds
       /\ err' = IF r.err # "" THEN Wrap(r.err, "failed to build commands") ELSE ""
       /\ pc' = AfterBuild(r.err)
       /\ idx' = 1
    /\ stages' = Append(stages, "build")
    /\ UNCHANGED <<cfg, tempFiles, fs, tmp, ctxDone, wt, given, created,
                   started, results>>

\* runCommands: one iteration up to cmd.Run starting the process.  Start
\* returns the lookup error when the executable was not found, refuses when
\* the command's context is done, and starts the process otherwise
RunStart ==
    /\ pc = "run"
    /\ idx <= Len(cmds)
    /\ \E found \in BOOLEAN :
         LET cmd == [cmds[idx] EXCEPT !.path = LookPath(@, found),
                                      !.env = CommandEnv(cfg, fs)]
         IN  /\ cmds' = [cmds EXCEPT ![idx] = cmd]
             /\ IF ~found
                THEN /\ err' = RunError(cmd, idx, Len(cmds),
                                        "executable file not found in $PATH")
                     /\ pc' = AfterRun(idx, Len(cmds), err')
                     /\ idx' = IF pc' = "run" THEN idx + 1 ELSE idx
                     /\ UNCHANGED started
                ELSE IF cmd.ctx /\ ctxDone
                THEN /\ err' = RunError(cmd, idx, Len(cmds), "context canceled")
                     /\ pc' = AfterRun(idx, Len(cmds), err')
                     /\ idx' = IF pc' = "run" THEN idx + 1 ELSE idx
                     /\ UNCHANGED started
                ELSE /\ started' = Append(started, idx)
                     /\ pc' = "running"
                     /\ UNCHANGED <<err, idx>>
    /\ stages' = IF idx = 1 /\ (stages = <<>> \/ stages[Len(stages)] # "execute")
                 THEN Append(stages, "execute") ELSE stages
    /\ UNCHANGED <<cfg, tempFiles, fs, tmp, ctxDone, wt, given, created, results>>

\* runCommands: the process of command idx exits by itself and cmd.Run returns
RunExit ==
    /\ pc = "running"
    /\ \E ok \in BOOLEAN :
         /\ results' = Append(results, IF ok THEN "ok" ELSE "fail")
         /\ LET e == IF ok THEN ""
                     ELSE RunError(cmds[idx], idx, Len(cmds), "exit status 1")
            IN  /\ err' = e
                /\ pc' = AfterRun(idx, Len(cmds), e)
                /\ idx' = IF pc' = "run" THEN idx + 1 ELSE idx
    /\ UNCHANGED <<cfg, tempFiles, fs, tmp, ctxDone, cmds, wt, given, created,
                   started, stages>>

\* exec.Cmd kills the process of a command made with CommandContext once
\* the context is done; cmd.Run returns the error
RunKill ==
    /\ pc = "running"
    /\ ctxDone
    /\ cmds[idx].ctx
    /\ results' = Append(results, "killed")
    /\ err' = RunError(cmds[idx], idx, Len(cmds), "signal: killed")
    /\ pc' = AfterRun(idx, Len(cmds), err')
    /\ idx' = IF pc' = "run" THEN idx + 1 ELSE idx
    /\ UNCHANGED <<cfg, tempFiles, fs, tmp, ctxDone, cmds, wt, given, created,
                   started, stages>>

\* Exec returns: the deferred cleanupTempFiles runs
ExecCleanup ==
    /\ pc = "cleanup"
    /\ tmp' = cleanupTempFiles(tmp, tempFiles)
    /\ pc' = "returned"
    /\ stages' = Append(stages, "release")
    /\ UNCHANGED <<cfg, tempFiles, fs, ctxDone, err, cmds, idx, wt, given,
                   created, started, results>>

\* the caller cancels the context (or its deadline passes)
Cancel ==
    /\ pc \in {"idle", "prepare", "build", "run", "running", "cleanup"}
    /\ ~ctxDone
    /\ ctxDone' = TRUE
    /\ UNCHANGED <<cfg, tempFiles, fs, tmp, pc, err, cmds, idx, wt, given,
                   created, started, results, stages>>

Next ==
    \/ ExecResolve
    \/ ExecPrepare
    \/ ExecBuild
    \/ RunStart
    \/ RunExit
    \/ RunKill
    \/ ExecCleanup
    \/ Cancel

Spec == Init /\ [][Next]_vars

----------------------------------------------------------------------------
(* resolvePlaybooks called on its own, over every small directory.         *)

\* the patterns Config.Playbooks is drawn from
ResolvePatterns == {"s.yml", "t.yml", "*.yml", "?.yml", "n.c.p"}

\* the names that may be directory entries: files or dangling links
ResolveNames == {"s.yml", "t.yml", "*.yml", "n.c.p"}

InitResolve ==
    /\ \E pl \in SeqsUpTo(ResolvePatterns, MaxPatterns) :
          cfg = [NewPlaybook EXCEPT !.Playbooks = pl]
    /\ \E kinds \in [ResolveNames -> {"absent", "file", "dangling"}] :
          fs = [n \in Names |-> IF n \in ResolveNames THEN kinds[n] ELSE "absent"]
    /\ tempFiles = <<>>
    /\ tmp = NoTemp
    /\ ctxDone = FALSE
    /\ pc = "resolve"
    /\ err = ""
    /\ cmds = <<>>
    /\ idx = 0
    /\ wt = NoCall
    /\ given = cfg.Playbooks
    /\ created = {}
    /\ started = <<>>
    /\ results = <<>>
    /\ stages = <<>>

\* p.resolvePlaybooks()
CallResolve ==
    /\ pc = "resolve"
    /\ LET r == resolvePlaybooks(fs, cfg.Playbooks) IN
       /\ cfg' = [cfg EXCEPT !.Playbooks = r.playbooks]
       /\ err' = r.err
    /\ pc' = "resolved"
    /\ UNCHANGED <<tempFiles, fs, tmp, ctxDone, cmds, idx, wt, given, created,
                   started, results, stages>>

NextResolve == CallResolve

SpecResolve == InitResolve /\ [][NextResolve]_vars

----------------------------------------------------------------------------
(* writeTempFile called on its own, over every prefix and content.         *)

InitWrite ==
    /\ cfg = NewPlaybook
    /\ fs = NoFiles
    /\ tempFiles = <<>>
    /\ tmp = NoTemp
    /\ ctxDone = FALSE
    /\ pc = "write"
    /\ err = ""
    /\ cmds = <<>>
    /\ idx = 0
    /\ \E prefix \in Prefixes, content \in Contents :
          wt = [prefix |-> prefix, content |-> content, perm |-> Perm0600,
                file |-> "", err |-> ""]
    /\ given = <<>>
    /\ created = {}
    /\ started = <<>>
    /\ results = <<>>
    /\ stages = <<>>

\* writeTempFile(tempDir, prefix, content, 0600)
CallWriteTempFile ==
    /\ pc = "write"
    /\ \E failAt \in FailPoints,
          name \in FreeNames(tmp, cfg.TempDir, wt.prefix) \cup {""} :
         /\ (name = "") = (failAt = "create")
         /\ LET r == writeTempFile(tmp, name, wt.prefix, wt.content, wt.perm, failAt)
            IN  /\ tmp' = r.tmp
                /\ wt' = [wt EXCEPT !.file = r.file, !.err = r.err]
                /\ created' = created \cup MadeBy(name, failAt)
    /\ pc' = "written"
    /\ UNCHANGED <<cfg, tempFiles, fs, ctxDone, err, cmds, idx, given, started,
                   results, stages>>

NextWrite == CallWriteTempFile

SpecWrite == InitWrite /\ [][NextWrite]_vars

----------------------------------------------------------------------------
(* writeTempFile one system call at a time, so that the states between     *)
(* os.CreateTemp, Write, Close and os.Chmod are states of the model.       *)

RECURSIVE BitAndNot(_, _)
\* a &^ b on permission bits
BitAndNot(a, b) ==
    IF a = 0 THEN 0
    ELSE (a % 2) * (1 - (b % 2)) + 2 * BitAndNot(a \div 2, b \div 2)

\* the process umasks: 0, 022, 077, 0277
Umasks == {0, 18, 63, 191}

\* the secrets prepareTempFiles stages
Secrets == {KeyRSA, VaultSecret}

\* the frame of the call and the umask of the process
InitStage ==
    /\ cfg = NewPlaybook
    /\ fs = NoFiles
    /\ tempFiles = <<>>
    /\ tmp = NoTemp
    /\ ctxDone = FALSE
    /\ pc = "wt_create"
    /\ err = ""
    /\ cmds = <<>>
    /\ idx = 0
    /\ \E prefix \in {KeyPrefix, VaultPrefix}, content \in Secrets, u \in Umasks :
          wt = [prefix |-> prefix, content |-> content, perm |-> Perm0600,
                file |-> "", err |-> "", umask |-> u]
    /\ given = <<>>
    /\ created = {}
    /\ started = <<>>
    /\ results = <<>>
    /\ stages = <<>>

\* os.CreateTemp(tempDir, prefix): the kernel clears the umask bits of the
\* mode the file is opened with
StageCreate ==
    /\ pc = "wt_create"
    /\ \/ /\ wt' = [wt EXCEPT !.err = "could not create temp file: EIO"]
          /\ pc' = "wt_done"
          /\ UNCHANGED <<tmp, created>>
       \/ \E name \in FreeNames(tmp, cfg.TempDir, wt.prefix) :
            LET t1 == CreateTemp(tmp, name) IN
            /\ tmp' = Chmod(t1, name, BitAndNot(t1[name].perm, wt.umask))
            /\ created' = created \cup {name}
            /\ wt' = [wt EXCEPT !.file = name]
            /\ pc' = "wt_write"
    /\ UNCHANGED <<cfg, tempFiles, fs, ctxDone, err, cmds, idx, given, started,
                   results, stages>>

\* tmpFile.Write([]byte(content)); on error Close, os.Remove and return
StageWrite ==
    /\ pc = "wt_write"
    /\ \/ /\ tmp' = WriteFile(tmp, wt.file, wt.content)
          /\ pc' = "wt_close"
          /\ UNCHANGED wt
       \/ /\ tmp' = Remove(tmp, wt.file)
          /\ wt' = [wt EXCEPT !.file = "", !.err = "could not write temp file: EIO"]
          /\ pc' = "wt_done"
    /\ UNCHANGED <<cfg, tempFiles, fs, ctxDone, err, cmds, idx, given, created,
                   started, results, stages>>

\* tmpFile.Close(); on error os.Remove and return
StageClose ==
    /\ pc = "wt_close"
    /\ \/ /\ pc' = "wt_chmod"
          /\ UNCHANGED <<tmp, wt>>
       \/ /\ tmp' = Remove(tmp, wt.file)
          /\ wt' = [wt EXCEPT !.file = "", !.err = "could not close temp file: EIO"]
          /\ pc' = "wt_done"
    /\ UNCHANGED <<cfg, tempFiles, fs, ctxDone, err, cmds, idx, given, created,
                   started, results, stages>>

\* os.Chmod(filename, perm); on error os.Remove and return
StageChmod ==
    /\ pc = "wt_chmod"
    /\ \/ /\ tmp' = Chmod(tmp, wt.file, wt.perm)
          /\ UNCHANGED wt
       \/ /\ tmp' = Remove(tmp, wt.file)
          /\ wt' = [wt EXCEPT !.file = "",
                              !.err = "could not set permissions on temp file: EIO"]
    /\ pc' = "wt_done"
    /\ UNCHANGED <<cfg, tempFiles, fs, ctxDone, err, cmds, idx, given, created,
                   started, results, stages>>

NextStage ==
    \/ StageCreate
    \/ StageWrite
    \/ StageClose
    \/ StageChmod

SpecStage == InitStage /\ [][NextStage]_vars

----------------------------------------------------------------------------
(* prepareTempFiles followed by cleanupTempFiles called twice, as a test   *)
(* or a caller of the unexported methods does; another process may remove  *)
(* a staged file before the release, and may keep files of its own in the  *)
(* same directory.                                                         *)

InitCleanup ==
    /\ \E k \in {"", KeyRSA}, v \in {"", VaultSecret} :
          cfg = [NewPlaybook EXCEPT !.PrivateKey = k, !.VaultPassword = v]
    /\ fs = NoFiles
    /\ tempFiles = <<>>
    /\ \E others \in SUBSET TempNamesOf("/tmp", "ssh-key-") :
          tmp = [n \in TempNames |->
                    IF n \in others
                    THEN [exists |-> TRUE, content |-> KeyRSA, perm |-> Perm0600]
                    ELSE NoFile]
    /\ ctxDone = FALSE
    /\ pc = "cl_idle"
    /\ err = ""
    /\ cmds = <<>>
    /\ idx = 0
    /\ wt = NoCall
    /\ given = <<>>
    /\ created = {}
    /\ started = <<>>
    /\ results = <<>>
    /\ stages = <<>>

\* pb.prepareTempFiles()
CallPrepare ==
    /\ pc = "cl_idle"
    /\ \E kf \in FailPoints, vf \in FailPoints,
          kn \in FreeNames(tmp, cfg.TempDir, KeyPrefix) \cup {""},
          vn \in FreeNames(tmp, cfg.TempDir, VaultPrefix) \cup {""} :
         /\ (kn = "") = (kf = "create")
         /\ (vn = "") = (vf = "create")
         /\ LET r == prepareTempFiles(cfg, tempFiles, tmp, kn, kf, vn, vf) IN
            /\ cfg' = r.cfg
            /\ tempFiles' = r.tempFiles
            /\ tmp' = r.tmp
            /\ created' = created \cup r.made
            /\ err' = r.err
    /\ pc' = "cl_staged"
    /\ UNCHANGED <<fs, ctxDone, cmds, idx, wt, given, started, results, stages>>

\* another process removes a staged file
Vanish ==
    /\ pc = "cl_staged"
    /\ \E n \in Range(tempFiles) :
         /\ tmp[n].exists
         /\ tmp' = Remove(tmp, n)
    /\ stages' = Append(stages, "vanish")
    /\ UNCHANGED <<cfg, tempFiles, fs, ctxDone, pc, err, cmds, idx, wt, given,
                   created, started, results>>

\* pb.cleanupTempFiles(), the first and the second time
CallCleanup ==
    /\ pc \in {"cl_staged", "cl_once"}
    /\ tmp' = cleanupTempFiles(tmp, tempFiles)
    /\ pc' = IF pc = "cl_staged" THEN "cl_once" ELSE "cl_twice"
    /\ stages' = Append(stages, "release")
    /\ UNCHANGED <<cfg, tempFiles, fs, ctxDone, err, cmds, idx, wt, given,
                   created, started, results>>

NextCleanup ==
    \/ CallPrepare
    \/ Vanish
    \/ CallCleanup

SpecCleanup == InitCleanup /\ [][NextCleanup]_vars

----------------------------------------------------------------------------
(* buildCommands called on its own, as TestBuildCommands does, on a        *)
(* playbook whose targets are resolved: over the options that shape the    *)
(* argument lists, and over the inventories and the files they name; and   *)
(* applyOption called on its own, over the four types of its type switch.  *)
(* buildCommands may be called a second time on the same Playbook, after   *)
(* an inventory file has appeared or disappeared or straight away.         *)

\* the verbosity levels
Levels == {-1, 0, 1, 3, 4, 5, 7}

\* the extra-var entries
VarEntries == {"", "a=1", "b=2"}

\* the inventories: an inline host list and two files
BuildInventories == {"localhost,", "hosts", "prod"}

\* NewPlaybook(); a zero Config; a playbook with many options set
Styles == {
    NewPlaybook,
    [NewPlaybook EXCEPT !.Forks = 0],
    [NewPlaybook EXCEPT !.Check = TRUE, !.Diff = TRUE, !.Tags = "deploy",
                        !.Forks = 10, !.User = "root", !.Become = TRUE,
                        !.Limit = "web",
                        !.PrivateKeyFile = "/tmp/ansible-key-1",
                        !.VaultPasswordFile = "/tmp/ansible-vault-1"] }

\* the options handed to applyOption: one flag of each type of the switch
OptionInputs ==
    {Opt("--check", "bool", b) : b \in BOOLEAN}
        \cup {Opt("--user", "string", v) : v \in {"", "root"}}
        \cup {Opt("--forks", "int", n) : n \in {-1, 0, 5, 10}}
        \cup {Opt("--module-path", "list", l) : l \in SeqsUpTo(VarEntries, MaxVars)}

\* the argument lists an option is applied to
ArgInputs == {<<>>, <<"--inventory", "hosts">>, <<"role", "install">>}

InitBuild ==
    /\ \/ \E style \in Styles, level \in Levels, lh \in BOOLEAN, sc \in BOOLEAN,
             ev \in SeqsUpTo(VarEntries, MaxVars), g \in {"", "req.yml"},
             iv \in {<<"localhost,">>, <<"localhost,", "hosts">>} :
            /\ cfg = [style EXCEPT !.Playbooks = <<"s.yml">>, !.Inventories = iv,
                                   !.Verbose = level, !.ListHosts = lh,
                                   !.SyntaxCheck = sc, !.ExtraVars = ev,
                                   !.GalaxyFile = g]
            /\ fs = [n \in Names |->
                        IF n \in {"s.yml", "req.yml", "hosts"} THEN "file"
                        ELSE "absent"]
            /\ pc = "build"
            /\ wt = NoCall
       \/ \E iv \in SeqsUpTo(BuildInventories, MaxInv), g \in {"", "req.yml"},
             kinds \in [{"hosts", "prod", "req.yml"} -> {"absent", "file", "dangling"}] :
            /\ cfg = [NewPlaybook EXCEPT !.Playbooks = <<"s.yml", "t.yml">>,
                                         !.Inventories = iv, !.GalaxyFile = g]
            /\ fs = [n \in Names |->
                        IF n \in DOMAIN kinds THEN kinds[n]
                        ELSE IF n \in {"s.yml", "t.yml"} THEN "file" ELSE "absent"]
            /\ pc = "build"
            /\ wt = NoCall
       \/ \E check \in BOOLEAN, forks \in {0, 5}, user \in {"", "root"},
             timeout \in {-1, 0, 30}, tags \in {"", "deploy"}, level \in {0, 2},
             gforce \in BOOLEAN, gtimeout \in {-1, 0, 30}, gkey \in {"", "k"},
             gpath \in {"", "/c"}, gpre \in BOOLEAN, gnodeps \in BOOLEAN,
             gupgrade \in BOOLEAN :
            /\ cfg = [NewPlaybook EXCEPT !.Playbooks = <<"s.yml">>,
                                         !.Inventories = <<"localhost,">>,
                                         !.GalaxyFile = "req.yml",
                                         !.Check = check, !.Forks = forks,
                                         !.User = user, !.Timeout = timeout,
                                         !.Tags = tags, !.Verbose = level,
                                         !.GalaxyForce = gforce,
                                         !.GalaxyTimeout = gtimeout,
                                         !.GalaxyAPIKey = gkey,
                                         !.GalaxyCollectionsPath = gpath,
                                         !.GalaxyPre = gpre,
                                         !.GalaxyNoDeps = gnodeps,
                                         !.GalaxyUpgrade = gupgrade]
            /\ fs = [n \in Names |->
                        IF n \in {"s.yml", "req.yml"} THEN "file" ELSE "absent"]
            /\ pc = "build"
            /\ wt = NoCall
       \/ \E args \in ArgInputs, opt \in OptionInputs :
            /\ cfg = [NewPlaybook EXCEPT !.Playbooks = <<"s.yml">>]
            /\ fs = [n \in Names |-> IF n = "s.yml" THEN "file" ELSE "absent"]
            /\ pc = "option"
            /\ wt = [args |-> args, opt |-> opt, out |-> <<>>]
    /\ tempFiles = <<>>
    /\ tmp = NoTemp
    /\ ctxDone = FALSE
    /\ err = ""
    /\ cmds = <<>>
    /\ idx = 0
    /\ given = cfg.Playbooks
    /\ created = {}
    /\ started = <<>>
    /\ results = <<>>
    /\ stages = <<>>

\* cmds, err := pb.buildCommands(ctx)
CallBuild ==
    /\ pc = "build"
    /\ LET r == buildCommands(cfg, fs) IN
       /\ cmds' = r.cmds
       /\ err' = r.err
    /\ pc' = "built"
    /\ stages' = Append(stages, "build")
    /\ UNCHANGED <<cfg, tempFiles, fs, tmp, ctxDone, idx, wt, given, created,
                   started, results>>

\* args = applyOption(args, opt)
CallApplyOption ==
    /\ pc = "option"
    /\ wt' = [wt EXCEPT !.out = applyOption(wt.args, wt.opt)]
    /\ pc' = "applied"
    /\ stages' = Append(stages, "option")
    /\ UNCHANGED <<cfg, tempFiles, fs, tmp, ctxDone, err, cmds, idx, given,
                   created, started, results>>

\* between two builds the file hosts is created or removed
InventoryChanges ==
    /\ pc = "built"
    /\ fs' = [fs EXCEPT !["hosts"] = IF @ = "file" THEN "absent" ELSE "file"]
    /\ pc' = "touched"
    /\ stages' = Append(stages, "touch")
    /\ UNCHANGED <<cfg, tempFiles, tmp, ctxDone, err, cmds, idx, wt, given,
                   created, started, results>>

\* cmds, err := pb.buildCommands(ctx), once more: results holds what the
\* second call returned
CallBuildAgain ==
    /\ pc \in {"built", "touched"}
    /\ results' = <<buildCommands(cfg, fs)>>
    /\ pc' = "rebuilt"
    /\ stages' = Append(stages, "build")
    /\ UNCHANGED <<cfg, tempFiles, fs, tmp, ctxDone, err, cmds, idx, wt, given,
                   created, started>>

NextBuild == CallBuild \/ CallApplyOption \/ InventoryChanges \/ CallBuildAgain

SpecBuild == InitBuild /\ [][NextBuild]_vars

----------------------------------------------------------------------------
(* Exec over the settings the environment of the commands is derived from. *)

\* Config.FactCachingTimeout values
CacheTimeouts == {-1, 0, 60}

InitEnv ==
    /\ \E iv \in {<<"localhost,">>, <<"localhost,", "hosts">>},
          g \in {"", "req.yml"}, cf \in {"", "ansible.cfg"},
          fc \in {"", "jsonfile"}, ft \in CacheTimeouts :
          cfg = [NewPlaybook EXCEPT !.Playbooks = <<"s.yml">>, !.Inventories = iv,
                                    !.GalaxyFile = g, !.ConfigFile = cf,
                                    !.FactCaching = fc, !.FactCachingTimeout = ft]
    /\ \E cfgKind \in {"absent", "file"} :
          fs = [n \in Names |->
                   IF n = "ansible.cfg" THEN cfgKind
                   ELSE IF n \in ExecNames THEN "file" ELSE "absent"]
    /\ tempFiles = <<>>
    /\ tmp = NoTemp
    /\ ctxDone = FALSE
    /\ pc = "idle"
    /\ err = ""
    /\ cmds = <<>>
    /\ idx = 0
    /\ wt = NoCall
    /\ given = cfg.Playbooks
    /\ created = {}
    /\ started = <<>>
    /\ results = <<>>
    /\ stages = <<>>

SpecEnv == InitEnv /\ [][Next]_vars

----------------------------------------------------------------------------
(* Exec with the scheduling the runtime guarantees: a cancelled context    *)
(* kills the process of a CommandContext command, and Exec goes on with    *)
(* its own next step: the next loop iteration of runCommands, the deferred *)
(* call.  Nothing makes a process exit by itself or the caller cancel.     *)

InitLive ==
    /\ \E iv \in SeqsUpTo(ExecInventories, MaxInv),
          k \in {"", KeyRSA}, g \in {"", "req.yml"} :
          cfg = [NewPlaybook EXCEPT !.Playbooks = <<"s.yml">>, !.Inventories = iv,
                                    !.PrivateKey = k, !.GalaxyFile = g]
    /\ fs = [n \in Names |-> IF n \in ExecNames THEN "file" ELSE "absent"]
    /\ tempFiles = <<>>
    /\ tmp = NoTemp
    /\ ctxDone = FALSE
    /\ pc = "idle"
    /\ err = ""
    /\ cmds = <<>>
    /\ idx = 0
    /\ wt = NoCall
    /\ given = cfg.Playbooks
    /\ created = {}
    /\ started = <<>>
    /\ results = <<>>
    /\ stages = <<>>

SpecLive ==
    /\ InitLive /\ [][Next]_vars
    /\ WF_vars(RunKill) /\ WF_vars(RunStart) /\ WF_vars(ExecCleanup)

----------------------------------------------------------------------------
(* Exec on a Playbook whose caller supplies PrivateKeyFile or               *)
(* VaultPasswordFile itself: files of the caller that exist before Exec,   *)
(* in the directory Exec stages in.                                        *)

\* the key files and the vault password file a caller may supply
SuppliedKeys == {"", "/tmp/ansible-key-1", "/tmp/ssh-key-1"}
SuppliedVaults == {"", "/tmp/ansible-vault-1"}

InitSupplied ==
    /\ \E k \in {"", KeyRSA}, v \in {"", VaultSecret},
          kfile \in SuppliedKeys, vfile \in SuppliedVaults,
          iv \in {<<"localhost,">>, <<"localhost,", "hosts">>} :
          /\ cfg = [NewPlaybook EXCEPT !.Playbooks = <<"s.yml">>,
                                       !.Inventories = iv,
                                       !.PrivateKey = k, !.VaultPassword = v,
                                       !.PrivateKeyFile = kfile,
                                       !.VaultPasswordFile = vfile]
          /\ tmp = [n \in TempNames |->
                       IF n = kfile
                       THEN [exists |-> TRUE, content |-> KeyRSA, perm |-> Perm0600]
                       ELSE IF n = vfile
                       THEN [exists |-> TRUE, content |-> VaultSecret, perm |-> Perm0600]
                       ELSE NoFile]
    /\ fs = [n \in Names |-> IF n \in {"s.yml", "hosts"} THEN "file" ELSE "absent"]
    /\ tempFiles = <<>>
    /\ ctxDone = FALSE
    /\ pc = "idle"
    /\ err = ""
    /\ cmds = <<>>
    /\ idx = 0
    /\ wt = NoCall
    /\ given = cfg.Playbooks
    /\ created = {}
    /\ started = <<>>
    /\ results = <<>>
    /\ stages = <<>>

SpecSupplied == InitSupplied /\ [][Next]_vars

----------------------------------------------------------------------------
(* Two Playbooks whose Exec run concurrently with the same TempDir.  Each   *)
(* system call on the shared directory is one step; in this specification  *)
(* cfg, tempFiles, pc, err, idx, wt and created hold one value per         *)
(* Playbook, and tmp is the directory the two share.                       *)

Runs == {1, 2}

\* the names os.CreateTemp can draw for a prefix: one more than MaxTemp, so
\* that two files of a prefix can coexist
TwoNamesOf(dir, prefix) ==
    {dir \o "/" \o prefix \o Itoa(k) : k \in 1..(MaxTemp + 1)}

TwoNames == TwoNamesOf("/tmp", KeyPrefix) \cup TwoNamesOf("/tmp", VaultPrefix)

\* names drawn without O_EXCL, as os.Create on a fixed name would
AnyNames(t, names) == names

\* os.CreateTemp opens with O_CREATE|O_EXCL and draws again on EEXIST: the
\* name it returns is one no file has
ExclusiveNames(t, names) == {n \in names : ~t[n].exists}

\* the secrets of the two Playbooks
TwoKey(r) == IF r = 1 THEN KeyRSA
             ELSE Join(<<Begin("OPENSSH "), "\n", "TEST-KEY-DATA", "\n", End("OPENSSH "), "\n">>)
TwoVault(r) == IF r = 1 THEN VaultSecret ELSE "vault_password_123"

\* the frame of the writeTempFile call a Playbook is in
NoFrame == [prefix |-> "", content |-> "", file |-> ""]

InitTwo ==
    /\ \E k \in [Runs -> BOOLEAN], v \in [Runs -> BOOLEAN] :
          cfg = [r \in Runs |->
                    [NewPlaybook EXCEPT !.Playbooks = <<"s.yml">>,
                                        !.Inventories = <<"localhost,">>,
                                        !.PrivateKey = IF k[r] THEN TwoKey(r) ELSE "",
                                        !.VaultPassword = IF v[r] THEN TwoVault(r) ELSE ""]]
    /\ fs = [n \in Names |-> IF n = "s.yml" THEN "file" ELSE "absent"]
    /\ tempFiles = [r \in Runs |-> <<>>]
    /\ tmp = [n \in TwoNames |-> NoFile]
    /\ ctxDone = FALSE
    /\ pc = [r \in Runs |-> "key"]
    /\ err = [r \in Runs |-> ""]
    /\ cmds = <<>>
    /\ idx = [r \in Runs |-> 0]
    /\ wt = [r \in Runs |-> NoFrame]
    /\ given = <<"s.yml">>
    /\ created = [r \in Runs |-> {}]
    /\ started = <<>>
    /\ results = <<>>
    /\ stages = <<>>

TwoUnchanged == UNCHANGED <<fs, ctxDone, cmds, given, started, results, stages>>

\* prepareTempFiles: a secret that is empty is passed over
TwoSkip(r) ==
    /\ \/ pc[r] = "key" /\ cfg[r].PrivateKey = "" /\ pc' = [pc EXCEPT ![r] = "vault"]
       \/ pc[r] = "vault" /\ cfg[r].VaultPassword = "" /\ pc' = [pc EXCEPT ![r] = "run"]
    /\ UNCHANGED <<cfg, tempFiles, tmp, err, idx, wt, created>>
    /\ TwoUnchanged

\* writeTempFile: os.CreateTemp(tempDir, prefix), which may fail
TwoCreate(r) ==
    /\ pc[r] \in {"key", "vault"}
    /\ LET prefix  == IF pc[r] = "key" THEN KeyPrefix ELSE VaultPrefix
           content == IF pc[r] = "key" THEN cfg[r].PrivateKey ELSE cfg[r].VaultPassword
       IN  /\ content # ""
           /\ \/ \E name \in ExclusiveNames(tmp, TwoNamesOf(cfg[r].TempDir, prefix)) :
                    /\ tmp' = CreateTemp(tmp, name)
                    /\ wt' = [wt EXCEPT ![r] = [prefix |-> prefix, content |-> content,
                                                file |-> name]]
                    /\ created' = [created EXCEPT ![r] = @ \cup {name}]
                    /\ pc' = [pc EXCEPT ![r] = IF pc[r] = "key" THEN "key_w" ELSE "vault_w"]
                    /\ err' = err
              \/ /\ err' = [err EXCEPT ![r] =
                               Wrap(IF pc[r] = "key"
                                    THEN "could not create private key file: could not create temp file: EIO"
                                    ELSE "could not create vault password file: could not create temp file: EIO",
                                    "failed to prepare temporary files")]
                 /\ pc' = [pc EXCEPT ![r] = "cleanup"]
                 /\ UNCHANGED <<tmp, wt, created>>
    /\ UNCHANGED <<cfg, tempFiles, idx>>
    /\ TwoUnchanged

\* writeTempFile: Write, Close and os.Chmod, each followed by os.Remove of
\* the file when it fails; then prepareTempFiles records the path
TwoFinish(r) ==
    /\ pc[r] \in {"key_w", "vault_w"}
    /\ \E failAt \in FailPoints \ {"create"} :
        LET name == wt[r].file IN
        IF failAt = "none"
        THEN /\ tmp' = Chmod(WriteFile(tmp, name, wt[r].content), name, Perm0600)
             /\ cfg' = [cfg EXCEPT ![r] =
                            IF pc[r] = "key_w" THEN [@ EXCEPT !.PrivateKeyFile = name]
                            ELSE [@ EXCEPT !.VaultPasswordFile = name]]
             /\ tempFiles' = [tempFiles EXCEPT ![r] = Append(@, name)]
             /\ pc' = [pc EXCEPT ![r] = IF pc[r] = "key_w" THEN "vault" ELSE "run"]
             /\ UNCHANGED <<err, created>>
        ELSE /\ tmp' = Remove(tmp, name)
             /\ created' = [created EXCEPT ![r] = @ \ {name}]
             /\ err' = [err EXCEPT ![r] =
                           Wrap((IF pc[r] = "key_w"
                                 THEN "could not create private key file: "
                                 ELSE "could not create vault password file: ")
                                    \o "could not " \o
                                    (IF failAt = "chmod" THEN "set permissions on"
                                     ELSE failAt) \o " temp file: EIO",
                                "failed to prepare temporary files")]
             /\ pc' = [pc EXCEPT ![r] = "cleanup"]
             /\ UNCHANGED <<cfg, tempFiles>>
    /\ wt' = [wt EXCEPT ![r] = NoFrame]
    /\ UNCHANGED idx
    /\ TwoUnchanged

\* buildCommands and runCommands: nothing in the shared directory changes
TwoRun(r) ==
    /\ pc[r] = "run"
    /\ \E e \in {"", "exit status 2"} :
          err' = [err EXCEPT ![r] = e]
    /\ pc' = [pc EXCEPT ![r] = "cleanup"]
    /\ UNCHANGED <<cfg, tempFiles, tmp, idx, wt, created>>
    /\ TwoUnchanged

\* cleanupTempFiles: one os.Remove of its loop, or the end of the loop
TwoRemove(r) ==
    /\ pc[r] = "cleanup"
    /\ IF idx[r] < Len(tempFiles[r])
       THEN LET name == tempFiles[r][idx[r] + 1] IN
            /\ tmp' = Remove(tmp, name)
            /\ created' = [created EXCEPT ![r] = @ \ {name}]
            /\ idx' = [idx EXCEPT ![r] = @ + 1]
            /\ pc' = pc
       ELSE /\ pc' = [pc EXCEPT ![r] = "returned"]
            /\ UNCHANGED <<tmp, created, idx>>
    /\ UNCHANGED <<cfg, tempFiles, err, wt>>
    /\ TwoUnchanged

NextTwo ==
    \E r \in Runs :
        TwoSkip(r) \/ TwoCreate(r) \/ TwoFinish(r) \/ TwoRun(r) \/ TwoRemove(r)

SpecTwo == InitTwo /\ [][NextTwo]_vars

----------------------------------------------------------------------------
(* Properties.                                                             *)

Last(q) == q[Len(q)]

\* the last n elements of q
Suffix(q, n) == SubSeq(q, Len(q) - n + 1, Len(q))

\* C1: when Exec has returned, on whatever path, no temporary file that the
\* run created for the private key or the vault password exists on disk.
C1_NoTempFileAfterExec ==
    pc = "returned" => \A n \in created : ~tmp[n].exists

\* C1 witness: Exec returned an error after both secrets had been staged.
C1_Witness ==
    /\ pc = "returned"
    /\ err # ""
    /\ Cardinality(created) = 2
    /\ Len(tempFiles) = 2

\* C2: the commands are started in list order, each once; command i+1 is
\* started only after command i has terminated successfully; after the
\* first command that fails none is started.
C2_InOrderStopAtFirstFailure ==
    /\ \A j \in 1..Len(started) : started[j] = j
    /\ Len(started) <= Len(cmds)
    /\ Len(results) = IF pc = "running" THEN Len(started) - 1 ELSE Len(started)
    /\ \A j \in 1..(Len(started) - 1) : results[j] = "ok"
    /\ (\E j \in 1..Len(results) : results[j] # "ok") => pc \in {"cleanup", "returned"}

\* C2 witness: the third of five commands failed and Exec returned.
C2_Witness ==
    /\ pc = "returned"
    /\ Len(cmds) = 5
    /\ started = <<1, 2, 3>>
    /\ results = <<"ok", "ok", "fail">>

StageOrder == <<"resolve", "stage", "build", "execute">>

\* an inventory without a comma whose file does not exist
MissingInventory(i) ==
    /\ ~Contains(cfg.Inventories[i], ",")
    /\ ~Stat(fs, cfg.Inventories[i])

\* C3: the stages of Exec run in the order resolve, stage, build, execute,
\* release; a stage that fails is followed by release only; no secret file
\* is created unless resolution has succeeded, no process is started
\* unless resolution, staging and building have succeeded (so none when
\* any inventory, even the last, is missing), and every staged file stays
\* on disk until the last started process has terminated.
C3_StagesInOrder ==
    /\ \E k \in 0..4 : \/ stages = SubSeq(StageOrder, 1, k)
                       \/ stages = Append(SubSeq(StageOrder, 1, k), "release")
    /\ err # "" => pc \in {"cleanup", "returned"}
    /\ pc = "returned" => stages # <<>> /\ Last(stages) = "release"
    /\ (pc \in {"cleanup", "returned"} /\ "execute" \notin Range(stages)) => err # ""
    /\ "stage" \notin Range(stages) => created = {}
    /\ "execute" \notin Range(stages) => started = <<>>
    /\ given = <<>> => created = {} /\ started = <<>>
    /\ (\E i \in 1..Len(cfg.Inventories) : MissingInventory(i)) => started = <<>>
    /\ (cfg.GalaxyFile # "" /\ ~Stat(fs, cfg.GalaxyFile)) => started = <<>>
    /\ "release" \notin Range(stages) => \A n \in Range(tempFiles) : tmp[n].exists
    /\ "release" \in Range(stages) => Len(results) = Len(started)

\* C3 witness: only the last of two inventories is missing; the secrets
\* were staged, nothing was started, and Exec returned.
C3_Witness ==
    /\ pc = "returned"
    /\ Len(cfg.Inventories) = 2
    /\ ~MissingInventory(1)
    /\ MissingInventory(2)
    /\ Cardinality(created) = 2
    /\ started = <<>>
    /\ stages = <<"resolve", "stage", "build", "release">>

\* C4: once the context has fired no command is started, whatever its kind,
\* and a process in flight at that time is terminated: the run leaves the
\* running state and Exec returns.
C4_CancelStopsRun ==
    /\ [][ctxDone => started' = started]_vars
    /\ (ctxDone /\ pc = "running") ~> (pc = "returned")

\* C4 witness: the context fired while the role-install command was in
\* flight; the process was killed and the remaining commands never started.
C4_Witness ==
    /\ pc = "returned"
    /\ ctxDone
    /\ Len(cmds) > 2
    /\ cmds[2].name = "ansible-galaxy"
    /\ started = <<1, 2>>
    /\ results = <<"ok", "killed">>

GalaxyCount == IF cfg.GalaxyFile # "" THEN 2 ELSE 0

\* C5: the built list is the version probe, then, only if GalaxyFile is
\* set, the role-install and the collection-install command, then one
\* ansible-playbook command per inventory, in inventory order, each ending
\* in the full resolved playbook list: 1 + (2 or 0) + |Inventories| commands.
C5_BuildOrder ==
    cmds # <<>> =>
        /\ Len(cmds) = 1 + GalaxyCount + Len(cfg.Inventories)
        /\ cmds[1].name = "ansible" /\ cmds[1].args = <<"--version">>
        /\ GalaxyCount = 2 =>
              /\ cmds[2].name = "ansible-galaxy"
              /\ SubSeq(cmds[2].args, 1, 2) = <<"role", "install">>
              /\ cmds[3].name = "ansible-galaxy"
              /\ SubSeq(cmds[3].args, 1, 2) = <<"collection", "install">>
        /\ \A j \in 1..Len(cfg.Inventories) :
              LET c == cmds[1 + GalaxyCount + j] IN
              /\ c.name = "ansible-playbook"
              /\ SubSeq(c.args, 1, 2) = <<"--inventory", cfg.Inventories[j]>>
              /\ Len(c.args) >= 2 + Len(cfg.Playbooks)
              /\ Suffix(c.args, Len(cfg.Playbooks)) = cfg.Playbooks

\* C5 witness: GalaxyFile set, two different inventories and two resolved
\* playbooks: five commands.
C5_Witness ==
    /\ Len(cmds) = 5
    /\ cfg.GalaxyFile # ""
    /\ Len(cfg.Inventories) = 2
    /\ cfg.Inventories[1] # cfg.Inventories[2]
    /\ Len(cfg.Playbooks) = 2


\* the pattern names an existing file: os.Stat succeeds on it
Existing(p) == Stat(fs, p)

RECURSIVE ConcatAll(_)
ConcatAll(qs) == IF qs = <<>> THEN <<>> ELSE Head(qs) \o ConcatAll(Tail(qs))

\* what one pattern stands for: its glob matches, or itself without any
Expansion(p) == IF Glob(fs, p) # <<>> THEN Glob(fs, p) ELSE <<p>>

\* C6 as stated: for every non-empty list of existing local file paths,
\* resolvePlaybooks succeeds and leaves Config.Playbooks equal to exactly
\* those paths in input order.
C6_AsStated ==
    (pc = "resolved" /\ given # <<>> /\ \A i \in 1..Len(given) : Existing(given[i]))
        => (err = "" /\ cfg.Playbooks = given)

\* C6 (amended): for every non-empty list of existing local file paths
\* none of which contains a glob metacharacter, resolvePlaybooks succeeds
\* and leaves Config.Playbooks equal to exactly those paths in input order;
\* and whenever it succeeds the resolved list is the concatenation, in
\* input pattern order, of each pattern's expansion.
C6_IdentityOnLiteralPaths ==
    pc = "resolved" =>
        /\ (given # <<>> /\ \A i \in 1..Len(given) :
                               Existing(given[i]) /\ ~hasMeta(given[i]))
              => (err = "" /\ cfg.Playbooks = given)
        /\ err = "" =>
              cfg.Playbooks = ConcatAll([i \in 1..Len(given) |-> Expansion(given[i])])

\* C6 witness: two different existing literal paths were resolved.
C6_Witness ==
    /\ pc = "resolved"
    /\ Len(given) = 2
    /\ given[1] # given[2]
    /\ \A i \in 1..2 : Existing(given[i]) /\ ~hasMeta(given[i])
    /\ cfg.Playbooks = given

RECURSIVE SplitDot(_, _)
\* strings.Split(s, "."): cur is the segment being read
SplitDot(cs, cur) ==
    IF cs = <<>> THEN <<cur>>
    ELSE IF Head(cs) = "." THEN <<cur>> \o SplitDot(Tail(cs), <<>>)
    ELSE SplitDot(Tail(cs), Append(cur, Head(cs)))

\* the characters of an identifier: letters, digits, underscore
IdentChars ==
    {"a", "b", "c", "d", "e", "f", "g", "h", "i", "j", "k", "l", "m", "n", "o",
     "p", "q", "r", "s", "t", "u", "v", "w", "x", "y", "z", "_",
     "0", "1", "2", "3", "4", "5", "6", "7", "8", "9"}

\* isCollectionPlaybook: three non-empty dot-separated identifier segments
isCollectionPlaybook(ref) ==
    LET segs == SplitDot(Chars(ref), <<>>) IN
    /\ Len(segs) = 3
    /\ \A k \in 1..3 : /\ segs[k] # <<>>
                       /\ \A i \in 1..Len(segs[k]) : segs[k][i] \in IdentChars

\* C7: a reference is a collection reference exactly when it has three
\* non-empty dot-separated identifier segments, and resolvePlaybooks keeps
\* every such reference verbatim and in place, whether or not a file of
\* that name exists: a list of collection references and existing literal
\* paths resolves to itself.
C7_CollectionRefsAccepted ==
    /\ isCollectionPlaybook("n.c.p")
    /\ \A p \in {"s.yml", "t.yml", "*.yml", "?.yml"} : ~isCollectionPlaybook(p)
    /\ (/\ pc = "resolved"
        /\ given # <<>>
        /\ \A i \in 1..Len(given) :
              \/ isCollectionPlaybook(given[i])
              \/ (Existing(given[i]) /\ ~hasMeta(given[i])))
          => (err = "" /\ cfg.Playbooks = given)

\* the pattern resolves to nothing: it has neither a glob match nor is an
\* existing path, or one of its glob matches cannot be stat-ed
Unresolvable(p) ==
    \/ Glob(fs, p) = <<>> /\ ~Stat(fs, p)
    \/ \E n \in Range(Glob(fs, p)) : ~Stat(fs, n)

C9_KeyMaterialValidated ==
    (pc = "written" /\ wt.prefix = KeyPrefix) =>
        /\ ~isValidSSHKey(wt.content) => wt.err # ""
        /\ (isValidSSHKey(wt.content) /\ wt.err = "")
              => (tmp[wt.file].exists /\ tmp[wt.file].perm = Perm0600)

RECURSIVE NormalizeEndings(_)
\* every CRLF and every bare CR replaced by LF
NormalizeEndings(ps) ==
    IF ps = <<>> THEN <<>>
    ELSE IF Head(ps) = "\r"
         THEN IF Len(ps) >= 2 /\ ps[2] = "\n"
              THEN <<"\n">> \o NormalizeEndings(Tail(Tail(ps)))
              ELSE <<"\n">> \o NormalizeEndings(Tail(ps))
         ELSE <<Head(ps)>> \o NormalizeEndings(Tail(ps))

\* the content a staged file is to hold: line endings normalised and a
\* single trailing LF guaranteed
Normalized(content) ==
    LET n == NormalizeEndings(Bytes(content)) IN
    Join(IF n # <<>> /\ Last(n) = "\n" THEN n ELSE Append(n, "\n"))

\* C10: the file written by writeTempFile reads back as the input with
\* every CRLF and bare CR replaced by LF and a single LF appended when the
\* result does not already end in LF.
C10_RoundTripNormalized ==
    (pc = "written" /\ wt.err = "") => tmp[wt.file].content = Normalized(wt.content)

\* a permission that grants nothing to the group and to others
OwnerOnly(perm) == perm % 64 = 0

\* C11: in every state of staging a temp file holding secret bytes is
\* accessible to its owner only, whichever system call writeTempFile has
\* reached, and after a successful writeTempFile the permission of the file
\* is exactly the requested 0600.
C11_SecretNeverExposed ==
    /\ \A n \in TempNames :
          (tmp[n].exists /\ tmp[n].content # "") => OwnerOnly(tmp[n].perm)
    /\ (pc = "wt_done" /\ wt.err = "") =>
          /\ tmp[wt.file].exists
          /\ tmp[wt.file].content = wt.content
          /\ tmp[wt.file].perm = Perm0600

\* the secret is on disk, the chmod has not run yet, and the umask left the
\* file with another mode than the requested one
C11_Witness ==
    /\ pc = "wt_chmod"
    /\ tmp[wt.file].exists
    /\ tmp[wt.file].content \in Secrets
    /\ tmp[wt.file].perm # Perm0600

\* what a subprocess error says: Start failed, the context was done, the
\* process exited non-zero, the process was killed
Causes == {"executable file not found in $PATH", "context canceled",
           "exit status 1", "signal: killed"}

\* the 1-based position of the command runCommands stopped at: the last
\* process run if it did not end well, the command after it otherwise
FailedAt ==
    IF results # <<>> /\ Last(results) # "ok" THEN Len(results)
    ELSE Len(results) + 1

\* the executable of the command at position i of the built list
ExecutableAt(i) ==
    IF i = 1 THEN "ansible"
    ELSE IF cfg.GalaxyFile # "" /\ i <= 3 THEN "ansible-galaxy"
    ELSE "ansible-playbook"

\* C12: when the command at 1-based position i of n fails, the error
\* runCommands returns is the subprocess error wrapped in a message naming
\* the base name of the failing executable, the position i and the total n.
C12_RunErrorNamesCommand ==
    (pc \in {"cleanup", "returned"} /\ "execute" \in Range(stages) /\ err # "") =>
        \E cause \in Causes :
            err = "error executing " \o ExecutableAt(FailedAt) \o " (command "
                  \o Itoa(FailedAt) \o "/" \o Itoa(Len(cmds)) \o "): " \o cause

\* C12 witness: the third of five commands, found in /usr/bin, exited
\* non-zero after the first two succeeded.
C12_Witness ==
    /\ pc = "returned"
    /\ Len(cmds) = 5
    /\ results = <<"ok", "ok", "fail">>
    /\ cmds[3].path = "/usr/bin/ansible-galaxy"
    /\ err = "error executing ansible-galaxy (command 3/5): exit status 1"

\* C13: the second of two cleanupTempFiles calls in a row leaves the disk
\* as the first left it, and a recorded file that was already missing when
\* the release started is tolerated: once cleanupTempFiles has returned no
\* recorded file exists, and no call touches a file that was not recorded.
C13_CleanupIdempotent ==
    /\ [][(pc = "cl_once" /\ pc' = "cl_twice") => tmp' = tmp]_vars
    /\ [][pc' \in {"cl_once", "cl_twice"} =>
            /\ \A n \in Range(tempFiles) : ~tmp'[n].exists
            /\ \A n \in TempNames \ Range(tempFiles) : tmp'[n] = tmp[n]]_vars

\* C13 witness: two files were recorded, the first one vanished before the
\* release, and cleanupTempFiles has been called twice.
C13_Witness ==
    /\ pc = "cl_twice"
    /\ Len(tempFiles) = 2
    /\ stages = <<"vanish", "release", "release">>
    /\ \A n \in created : ~tmp[n].exists
    /\ \E n \in TempNames : tmp[n].exists

\* every argument that is a dash followed by letters v only
VerbosityFlags == {"-" \o Repeat("v", k) : k \in 0..8}

\* the flag a level asks for (levels above 0)
ExpectedFlag(level) ==
    CASE level = 1 -> "-v" [] level = 2 -> "-vv" [] level = 3 -> "-vvv"
      [] level >= 4 -> "-vvvv"

\* the positions of the verbosity flags in an argument list
FlagsIn(args) == {j \in 1..Len(args) : args[j] \in VerbosityFlags}

\* the playbook command is rendered in listing or syntax-check mode
ModeSet == cfg.ListHosts \/ cfg.SyntaxCheck

\* C14: on both galaxy commands and on every playbook command that renders
\* its options, no verbosity flag is rendered for a level of 0 or below,
\* and for a level above 0 exactly one is rendered, right before the
\* targets: a dash and level letters v up to level 4, -vvvv for every level
\* above 4.  (In listing or syntax-check mode the playbook command renders
\* no verbosity flag at any level.)
C14_VerbosityFlag ==
    (pc = "built" /\ err = "") =>
        \A i \in 2..Len(cmds) :
            LET args == cmds[i].args
                galaxy == cmds[i].name = "ansible-galaxy"
            IN  IF cfg.Verbose <= 0 \/ (~galaxy /\ ModeSet)
                THEN FlagsIn(args) = {}
                ELSE /\ FlagsIn(args) =
                            {IF galaxy THEN Len(args)
                             ELSE Len(args) - Len(cfg.Playbooks)}
                     /\ \A j \in FlagsIn(args) : args[j] = ExpectedFlag(cfg.Verbose)

\* C14 witness: level 7 with a galaxy file and an options-rendering
\* playbook command: all three commands carry -vvvv.
C14_Witness ==
    /\ pc = "built"
    /\ cfg.Verbose = 7
    /\ ~ModeSet
    /\ Len(cmds) >= 4
    /\ \A i \in 2..4 : \E j \in 1..Len(cmds[i].args) : cmds[i].args[j] = "-vvvv"

\* C15: a playbook made by NewPlaybook with only Playbooks = [s.yml] (an
\* existing file) and Inventories = [localhost,] set builds exactly the
\* version probe and one ansible-playbook command whose arguments end in
\* --inventory, localhost,, s.yml with nothing in between.
C15_QuickStartCommand ==
    (/\ pc = "built"
     /\ cfg = [NewPlaybook EXCEPT !.Playbooks = <<"s.yml">>,
                                  !.Inventories = <<"localhost,">>]) =>
        /\ err = ""
        /\ Len(cmds) = 2
        /\ cmds[1].name = "ansible" /\ cmds[1].args = <<"--version">>
        /\ cmds[2].name = "ansible-playbook"
        /\ Len(cmds[2].args) >= 3
        /\ Suffix(cmds[2].args, 3) = <<"--inventory", "localhost,", "s.yml">>

\* the ansible-playbook commands of the built list, by inventory index
RunCommand(j) == cmds[Len(cmds) - Len(cfg.Inventories) + j]

\* C16: with ListHosts or SyntaxCheck set, the arguments of every run
\* command are exactly --inventory, the inventory, one mode flag that is
\* --list-hosts or --syntax-check and belongs to a mode that is set, then
\* the resolved targets; nothing else, whatever else is configured.
C16_ModeRendersOnlyModeFlag ==
    (pc = "built" /\ err = "" /\ ModeSet) =>
        \A j \in 1..Len(cfg.Inventories) :
            \E flag \in {"--list-hosts", "--syntax-check"} :
                /\ flag = "--list-hosts" => cfg.ListHosts
                /\ flag = "--syntax-check" => cfg.SyntaxCheck
                /\ RunCommand(j).name = "ansible-playbook"
                /\ RunCommand(j).args =
                      <<"--inventory", cfg.Inventories[j], flag>> \o cfg.Playbooks

\* C16 witness: listing mode together with check, diff, tags, forks,
\* credentials, extra vars and verbosity, for two inventories.
C16_Witness ==
    /\ pc = "built"
    /\ err = ""
    /\ cfg.ListHosts /\ ~cfg.SyntaxCheck
    /\ cfg.Check /\ cfg.Diff /\ cfg.Tags # "" /\ cfg.Forks = 10
    /\ cfg.PrivateKeyFile # "" /\ cfg.Verbose = 3
    /\ cfg.ExtraVars = <<"a=1", "b=2">>
    /\ Len(cfg.Inventories) = 2
    /\ Len(cmds) = 3
    /\ cmds[3].args = <<"--inventory", "hosts", "--list-hosts", "s.yml">>

RECURSIVE ExtraVarValues(_)
\* the arguments that follow an --extra-vars flag, in order
ExtraVarValues(args) ==
    IF Len(args) < 2 THEN <<>>
    ELSE IF Head(args) = "--extra-vars"
         THEN <<args[2]>> \o ExtraVarValues(SubSeq(args, 3, Len(args)))
         ELSE ExtraVarValues(Tail(args))

\* how many arguments are the flag --extra-vars
ExtraVarFlags(args) == Cardinality({j \in 1..Len(args) : args[j] = "--extra-vars"})

NonEmptyEntry(e) == e # ""

Inline(inv) == inv = "localhost,"

\* the inventories of the configuration that name a file that does not exist
MissingAt == {j \in 1..Len(cfg.Inventories) :
                ~Inline(cfg.Inventories[j]) /\ fs[cfg.Inventories[j]] # "file"}

\* the galaxy file passes the check of buildCommands
GalaxyOk == cfg.GalaxyFile = "" \/ fs[cfg.GalaxyFile] = "file"

\* C18: an inventory with a comma never makes building fail, whatever is
\* on disk; if an inventory without a comma names a file that does not
\* exist, building fails and returns no command, not even those of the
\* inventories before it, and the error names the first such inventory.
C18_InventoryValidated ==
    pc = "built" =>
        /\ MissingAt # {} => (err # "" /\ cmds = <<>>)
        /\ (GalaxyOk /\ MissingAt # {}) =>
              \E j \in MissingAt :
                 /\ \A k \in MissingAt : j <= k
                 /\ err = "inventory not found: " \o cfg.Inventories[j]
        /\ (GalaxyOk /\ MissingAt = {}) =>
              /\ err = ""
              /\ Len(cmds) = 1 + GalaxyCount + Len(cfg.Inventories)

\* C18 witness: an inline inventory first, then a file that does not
\* exist, while the other inventory file does: the error names the missing
\* one and the command of the inline inventory is not returned.
C18_Witness ==
    /\ pc = "built"
    /\ cfg.Inventories = <<"localhost,", "prod">>
    /\ fs["hosts"] = "file"
    /\ fs["prod"] = "absent"
    /\ err = "inventory not found: prod"
    /\ cmds = <<>>

\* the two markers every command gets
Markers == <<"ANSIBLE_FORCE_COLOR=1", "ANSIBLE_GALAXY_DISPLAY_PROGRESS=0">>

\* what a variable of the environment is set to, "" if it is not set: the
\* last entry of the list for that variable wins
RECURSIVE Getenv(_, _)
Getenv(env, entries) ==
    IF env = <<>> THEN ""
    ELSE IF Last(env) \in entries THEN Last(env)
    ELSE Getenv(SubSeq(env, 1, Len(env) - 1), entries)

\* every entry the model can give each derived variable
ConfigEntries == {"ANSIBLE_CONFIG=ansible.cfg"}
CachingEntries == {"ANSIBLE_FACT_CACHING=jsonfile"}
TimeoutEntries == {"ANSIBLE_FACT_CACHING_TIMEOUT=-1",
                   "ANSIBLE_FACT_CACHING_TIMEOUT=0",
                   "ANSIBLE_FACT_CACHING_TIMEOUT=60"}

\* the commands runCommands has given an environment
Invoked == {i \in 1..Len(cmds) : cmds[i].env # <<>>}

\* the part of the claim that does not depend on when a derived variable
\* is present: host environment first, the two markers over it, the same
\* environment for every command, an environment for every started command
EnvOverlay ==
    /\ \A i \in Range(started) : i \in Invoked
    /\ \A i \in Invoked :
          /\ SubSeq(cmds[i].env, 1, Len(HostEnv) + 2) = HostEnv \o Markers
          /\ Getenv(cmds[i].env, {"ANSIBLE_FORCE_COLOR=0", "ANSIBLE_FORCE_COLOR=1"})
                = "ANSIBLE_FORCE_COLOR=1"
          /\ \A k \in Invoked : cmds[k].env = cmds[i].env

\* C19 as stated: each derived variable is present exactly when its source
\* field is non-empty or non-zero.
C19_AsStated ==
    /\ EnvOverlay
    /\ \A i \in Invoked :
          /\ (Getenv(cmds[i].env, ConfigEntries) # "") = (cfg.ConfigFile # "")
          /\ (Getenv(cmds[i].env, CachingEntries) # "") = (cfg.FactCaching # "")
          /\ (Getenv(cmds[i].env, TimeoutEntries) # "") = (cfg.FactCachingTimeout # 0)

\* C19: the environment of every invoked command is the host environment
\* overlaid with the two markers, plus ANSIBLE_CONFIG exactly when
\* ConfigFile is non-empty and names an existing file, ANSIBLE_FACT_CACHING
\* exactly when FactCaching is non-empty, and ANSIBLE_FACT_CACHING_TIMEOUT
\* exactly when FactCachingTimeout is above zero, each set to its field;
\* the environment is the same for every command of the run.
C19_EnvOverlaid ==
    /\ EnvOverlay
    /\ \A i \in Invoked :
          /\ Getenv(cmds[i].env, ConfigEntries) =
                IF cfg.ConfigFile # "" /\ fs[cfg.ConfigFile] = "file"
                THEN "ANSIBLE_CONFIG=ansible.cfg" ELSE ""
          /\ Getenv(cmds[i].env, CachingEntries) =
                IF cfg.FactCaching # "" THEN "ANSIBLE_FACT_CACHING=jsonfile" ELSE ""
          /\ Getenv(cmds[i].env, TimeoutEntries) =
                IF cfg.FactCachingTimeout > 0
                THEN "ANSIBLE_FACT_CACHING_TIMEOUT=60" ELSE ""
          /\ Len(cmds[i].env) =
                Len(HostEnv) + 2
                + (IF cfg.ConfigFile # "" /\ fs[cfg.ConfigFile] = "file" THEN 1 ELSE 0)
                + (IF cfg.FactCaching # "" THEN 1 ELSE 0)
                + (IF cfg.FactCachingTimeout > 0 THEN 1 ELSE 0)

\* C19 witness: all three fields set and the configuration file present;
\* four commands ran with the three derived variables.
C19_Witness ==
    /\ pc = "returned"
    /\ err = ""
    /\ Len(started) = 4
    /\ cfg.ConfigFile = "ansible.cfg" /\ fs["ansible.cfg"] = "file"
    /\ \A i \in 1..4 :
          cmds[i].env = HostEnv \o Markers
                        \o <<"ANSIBLE_CONFIG=ansible.cfg",
                             "ANSIBLE_FACT_CACHING=jsonfile",
                             "ANSIBLE_FACT_CACHING_TIMEOUT=60">>

\* C20: commands are only built for a configuration with at least one
\* resolved target and at least one inventory: when resolvePlaybooks has
\* succeeded Config.Playbooks is not empty, and a run whose Inventories
\* list is empty builds no command list and starts no command.
C20_TargetsAndInventoriesRequired ==
    /\ ("resolve" \in Range(stages) /\ "stage" \in Range(stages)) =>
          cfg.Playbooks # <<>>
    /\ cfg.Inventories = <<>> => (cmds = <<>> /\ started = <<>>)

RECURSIVE PairsOf(_)
\* the --extra-vars pairs of a list of entries, empty entries left out
PairsOf(entries) ==
    IF entries = <<>> THEN <<>>
    ELSE (IF Head(entries) # "" THEN <<"--extra-vars", Head(entries)>> ELSE <<>>)
         \o PairsOf(Tail(entries))

\* the arguments a run command must end with
ExpectedTail ==
    PairsOf(cfg.ExtraVars)
    \o (IF cfg.Verbose > 0 THEN <<ExpectedFlag(cfg.Verbose)>> ELSE <<>>)
    \o cfg.Playbooks

\* C21: every run command that is not short-circuited by ListHosts or
\* SyntaxCheck ends with the --extra-vars pairs, then the verbosity flag if
\* the level is above 0, then all resolved targets in resolved order; what
\* precedes that tail starts with the inventory and holds no --extra-vars
\* flag, no verbosity flag and no target.
C21_TailOrder ==
    (pc = "built" /\ err = "" /\ ~ModeSet) =>
        \A j \in 1..Len(cfg.Inventories) :
            LET args == RunCommand(j).args
                n    == Len(ExpectedTail)
                front == SubSeq(args, 1, Len(args) - n)
            IN  /\ Len(args) >= 2 + n
                /\ Suffix(args, n) = ExpectedTail
                /\ SubSeq(front, 1, 2) = <<"--inventory", cfg.Inventories[j]>>
                /\ \A k \in 1..Len(front) :
                      /\ front[k] # "--extra-vars"
                      /\ front[k] \notin VerbosityFlags
                      /\ front[k] \notin Range(cfg.Playbooks)

\* C21 witness: options, two extra vars and level 3: the command ends
\* with both pairs, -vvv and the target, and options stand before them.
C21_Witness ==
    /\ pc = "built"
    /\ err = ""
    /\ ~ModeSet
    /\ cfg.Check /\ cfg.Tags # ""
    /\ cfg.ExtraVars = <<"a=1", "b=2">>
    /\ cfg.Verbose = 3
    /\ Len(cfg.Inventories) >= 1
    /\ Suffix(RunCommand(1).args, 6)
          = <<"--extra-vars", "a=1", "--extra-vars", "b=2", "-vvv", "s.yml">>
    /\ Len(RunCommand(1).args) > 8

\* the rendering of one option by the rule: a flag alone, a flag and its
\* value, or one pair per non-empty element
RECURSIVE FlagPairs(_, _)
FlagPairs(flag, items) ==
    IF items = <<>> THEN <<>>
    ELSE (IF Head(items) # "" THEN <<flag, Head(items)>> ELSE <<>>)
            \o FlagPairs(flag, Tail(items))

Rendered(opt) ==
    CASE opt.kind = "bool" -> IF opt.value = TRUE THEN <<opt.flag>> ELSE <<>>
      [] opt.kind = "string" ->
            IF opt.value # "" THEN <<opt.flag, opt.value>> ELSE <<>>
      [] opt.kind = "int" ->
            IF opt.value # 0 THEN <<opt.flag, Itoa(opt.value)>> ELSE <<>>
      [] opt.kind = "list" -> FlagPairs(opt.flag, opt.value)

\* the renderings of a table, in the order of the table
RECURSIVE RenderedAll(_)
RenderedAll(opts) ==
    IF opts = <<>> THEN <<>> ELSE Rendered(Head(opts)) \o RenderedAll(Tail(opts))

VerboseTail == IF cfg.Verbose > 0 THEN <<ExpectedFlag(cfg.Verbose)>> ELSE <<>>

\* C22: every option of the run command and of the two galaxy commands is
\* rendered by one rule: a boolean option as its flag alone iff true, a
\* string or integer option as flag and value iff the value is not "" or 0,
\* a string-list option as one pair per non-empty element in input order;
\* and the options appear in the order of the option table.
C22_UniformRendering ==
    /\ pc = "applied" => wt.out = wt.args \o Rendered(wt.opt)
    /\ (pc = "built" /\ err = "") =>
        /\ ~ModeSet => \A j \in 1..Len(cfg.Inventories) :
              RunCommand(j).args =
                  <<"--inventory", cfg.Inventories[j]>>
                      \o RenderedAll(ansibleOptions(cfg)) \o ExpectedTail
        /\ cfg.GalaxyFile # "" =>
              /\ cmds[2].args = <<"role", "install">>
                      \o RenderedAll(galaxyRoleOptions(cfg)) \o VerboseTail
              /\ cmds[3].args = <<"collection", "install">>
                      \o RenderedAll(galaxyCollectionOptions(cfg)) \o VerboseTail

C22_Witness ==
    /\ pc = "built" /\ err = "" /\ ~ModeSet
    /\ cfg.Check /\ cfg.Forks = 5 /\ cfg.User = "" /\ cfg.Timeout = -1
    /\ cfg.Tags = "deploy" /\ cfg.Verbose = 0
    /\ cfg.GalaxyForce /\ cfg.GalaxyTimeout = -1 /\ cfg.GalaxyAPIKey = ""
    /\ cfg.GalaxyCollectionsPath = "/c" /\ ~cfg.GalaxyPre
    /\ ~cfg.GalaxyNoDeps /\ ~cfg.GalaxyUpgrade
    /\ cmds[4].args = <<"--inventory", "localhost,", "--check", "--forks", "5",
                        "--timeout", "-1", "--tags", "deploy", "s.yml">>
    /\ cmds[2].args = <<"role", "install", "--role-file", "req.yml",
                        "--timeout", "-1", "--force">>
    /\ cmds[3].args = <<"collection", "install", "--requirements-file",
                        "req.yml", "--timeout", "-1", "--collections-path",
                        "/c", "--force">>
RoleFlags ==
    {"--role-file", "--server", "--api-key", "--ignore-certs", "--timeout",
     "--force", "--no-deps", "--force-with-deps"}

CollectionFlags ==
    {"--requirements-file", "--server", "--api-key", "--ignore-certs",
     "--timeout", "--force-with-deps", "--collections-path", "--pre",
     "--upgrade", "--force"}

\* the galaxy flags that are followed by a value
ValueFlags ==
    {"--role-file", "--requirements-file", "--server", "--api-key",
     "--timeout", "--collections-path"}

\* after the base, args holds only flags of the set, the values of such
\* flags, and the verbosity flag at its end
OnlyFrom(args, base, flags) ==
    /\ Len(args) >= 2
    /\ SubSeq(args, 1, 2) = base
    /\ \A k \in 3..Len(args) :
          \/ args[k] \in flags
          \/ args[k-1] \in flags \cap ValueFlags
          \/ k = Len(args) /\ args[k] \in VerbosityFlags

GalaxyFileMissing == cfg.GalaxyFile # "" /\ fs[cfg.GalaxyFile] \in {"absent", "dangling"}

\* C23: with GalaxyFile set and the file missing, buildCommands fails with an
\* error naming the file and returns no command at all; with the file
\* present, the role-install command carries only flags of the role set and
\* the collection-install command only flags of the collection set.
C23_GalaxyFileChecked ==
    (pc = "built" /\ cfg.GalaxyFile # "") =>
        IF GalaxyFileMissing
        THEN err = "galaxy file not found: " \o cfg.GalaxyFile /\ cmds = <<>>
        ELSE err = "" =>
                /\ Len(cmds) = 3 + Len(cfg.Inventories)
                /\ cmds[2].name = "ansible-galaxy"
                /\ cmds[3].name = "ansible-galaxy"
                /\ OnlyFrom(cmds[2].args, <<"role", "install">>, RoleFlags)
                /\ OnlyFrom(cmds[3].args, <<"collection", "install">>, CollectionFlags)
                /\ SubSeq(cmds[2].args, 3, 4) = <<"--role-file", cfg.GalaxyFile>>
                /\ SubSeq(cmds[3].args, 3, 4) = <<"--requirements-file", cfg.GalaxyFile>>

\* the file is missing and the only inventory is an inline host list
C23_Witness ==
    /\ pc = "built" /\ GalaxyFileMissing
    /\ cfg.Inventories = <<"localhost,">>
    /\ err = "galaxy file not found: req.yml" /\ cmds = <<>>

\* the file is there, and the options of one command are not in the other
C23_WitnessRendered ==
    /\ pc = "built" /\ err = "" /\ cfg.GalaxyFile = "req.yml"
    /\ cfg.GalaxyNoDeps /\ cfg.GalaxyPre /\ cfg.GalaxyUpgrade
    /\ cfg.GalaxyCollectionsPath = "/c" /\ cfg.Verbose = 2
    /\ "--no-deps" \in Range(cmds[2].args)
    /\ "--no-deps" \notin Range(cmds[3].args)
    /\ "--pre" \in Range(cmds[3].args)
    /\ "--pre" \notin Range(cmds[2].args)
\* the prefixes under which key material is staged
KeyMaterialPrefixes == {"ansible-key-", "ssh-key-"}

\* C24: structural key validation applies only to key material: whatever
\* its content, a vault password, or any content staged under a prefix
\* other than ansible-key- and ssh-key- (my-keycloak-config- included), is
\* staged without validation, so the call fails only if a system call does.
C24_ValidationOnlyForKeys ==
    (pc = "written" /\ wt.prefix \notin KeyMaterialPrefixes) =>
        \/ /\ wt.err = ""
           /\ tmp[wt.file].exists
           /\ tmp[wt.file].content = wt.content
        \/ /\ wt.err \in {"could not create temp file: EIO",
                          "could not write temp file: EIO",
                          "could not close temp file: EIO",
                          "could not set permissions on temp file: EIO"}
           /\ wt.file = ""

\* a prefix that holds the text key, a content that is no key, no error
C24_Witness ==
    /\ pc = "written"
    /\ wt.prefix = "my-keycloak-config-"
    /\ ~isValidSSHKey(wt.content)
    /\ wt.content = "This is not a valid SSH key"
    /\ wt.err = ""
    /\ tmp[wt.file].content = wt.content
\* the secrets of the configuration
SecretContents == {cfg.PrivateKey, cfg.VaultPassword} \ {""}

\* C25: the content of PrivateKey and of VaultPassword is no argument of any
\* built command; a staged secret is referenced by its file path only, as
\* the value of --private-key or of --vault-password-file.
C25_SecretsByPathOnly ==
    \A i \in 1..Len(cmds) :
        LET a == cmds[i].args IN
        \A k \in 1..Len(a) :
            /\ a[k] \notin SecretContents
            /\ a[k] \in Range(tempFiles) =>
                  /\ k > 1
                  /\ \/ a[k-1] = "--private-key" /\ a[k] = cfg.PrivateKeyFile
                     \/ a[k-1] = "--vault-password-file" /\ a[k] = cfg.VaultPasswordFile
                  /\ pc \in {"run", "running"} =>
                        tmp[a[k]].content =
                            IF a[k-1] = "--private-key" THEN cfg.PrivateKey
                            ELSE cfg.VaultPassword

C25_Witness ==
    /\ pc = "running"
    /\ cfg.PrivateKey = KeyRSA /\ cfg.VaultPassword = VaultSecret
    /\ Len(tempFiles) = 2
    /\ LET a == cmds[idx].args IN
        \E k \in 1..Len(a), m \in 1..Len(a) :
            /\ a[k] = "--private-key" /\ a[k+1] = tempFiles[1]
            /\ a[m] = "--vault-password-file" /\ a[m+1] = tempFiles[2]
            /\ tmp[tempFiles[1]].content = KeyRSA
            /\ tmp[tempFiles[2]].content = VaultSecret
\* the secrets a Playbook stages
SecretsOf(r) == {cfg[r].PrivateKey, cfg[r].VaultPassword} \ {""}

\* C26: two runs that execute concurrently with the same staging directory
\* never hold a staged secret at the same file path, and no step of one run
\* removes or overwrites a file the other has staged: a file a run created
\* and has not removed yet exists and holds nothing but that run's secret.
C26_RunsIsolated ==
    \A r \in Runs :
        /\ \A q \in Runs \ {r} : created[r] \cap created[q] = {}
        /\ \A n \in created[r] :
              /\ tmp[n].exists
              /\ tmp[n].content \in {""} \cup SecretsOf(r)
        /\ \A i \in 1..Len(tempFiles[r]) :
              i > idx[r] => /\ tempFiles[r][i] \in created[r]
                            /\ tmp[tempFiles[r][i]].content \in SecretsOf(r)

\* one run has released its files while the other still holds both of its
\* own in the same directory
C26_Witness ==
    /\ pc[1] = "returned" /\ idx[1] = 2 /\ Len(tempFiles[1]) = 2
    /\ pc[2] = "run" /\ Len(tempFiles[2]) = 2
    /\ tempFiles[2][1] \notin Range(tempFiles[1])
    /\ tempFiles[2][2] \notin Range(tempFiles[1])
    /\ tmp[tempFiles[2][1]].content = TwoKey(2)
    /\ tmp[tempFiles[2][2]].content = TwoVault(2)
    /\ ~tmp[tempFiles[1][1]].exists
PathFields == {"PrivateKeyFile", "VaultPasswordFile"}

CallerFiles == {n \in DOMAIN tmp : tmp[n].exists /\ n \notin created}

\* the run commands carry the flag with the path as its value
PassedOn(flag, path) ==
    (cmds # <<>> /\ ~ModeSet) =>
        \A j \in 1..Len(cfg.Inventories) :
            LET a == RunCommand(j).args IN
            \E k \in 1..(Len(a) - 1) : a[k] = flag /\ a[k+1] = path

\* C29: release removes only files this Playbook created during staging.
\* A file is created and recorded for a secret only if the secret is not
\* empty; a PrivateKeyFile or VaultPasswordFile the caller supplies, with
\* the secret empty, reaches the run command unchanged, and no step of Exec
\* deletes or rewrites that file.
C29_ReleaseOnlyOwnFiles ==
    /\ [](/\ Range(tempFiles) \subseteq created
          /\ Len(tempFiles) <= (IF cfg.PrivateKey # "" THEN 1 ELSE 0)
                                  + (IF cfg.VaultPassword # "" THEN 1 ELSE 0)
          /\ cfg.PrivateKey = "" => created \cap TempNamesOf(cfg.TempDir, KeyPrefix) = {}
          /\ cfg.VaultPassword = "" => created \cap TempNamesOf(cfg.TempDir, VaultPrefix) = {}
          /\ (cfg.PrivateKey = "" /\ cfg.PrivateKeyFile # "") =>
                PassedOn("--private-key", cfg.PrivateKeyFile)
          /\ (cfg.VaultPassword = "" /\ cfg.VaultPasswordFile # "") =>
                PassedOn("--vault-password-file", cfg.VaultPasswordFile))
    /\ [][/\ \A n \in CallerFiles : tmp'[n] = tmp[n]
          /\ \A n \in DOMAIN tmp : (tmp[n].exists /\ ~tmp'[n].exists) => n \in created
          /\ cfg.PrivateKey = "" => cfg'.PrivateKeyFile = cfg.PrivateKeyFile
          /\ cfg.VaultPassword = "" => cfg'.VaultPasswordFile = cfg.VaultPasswordFile]_vars

\* Exec has returned after running with the caller's key file and a vault
\* password it staged: its own file is gone, the caller's is as it was
C29_Witness ==
    /\ pc = "returned" /\ err = ""
    /\ cfg.PrivateKey = "" /\ cfg.PrivateKeyFile = "/tmp/ansible-key-1"
    /\ cfg.VaultPassword = VaultSecret
    /\ Len(tempFiles) = 1 /\ ~tmp[tempFiles[1]].exists
    /\ tmp["/tmp/ansible-key-1"] = [exists |-> TRUE, content |-> KeyRSA, perm |-> Perm0600]
    /\ \E k \in 1..Len(Last(cmds).args) - 1 :
          /\ Last(cmds).args[k] = "--private-key"
          /\ Last(cmds).args[k+1] = "/tmp/ansible-key-1"
    /\ started = [i \in 1..Len(cmds) |-> i]
ModeFlags == {"--syntax-check", "--list-hosts"}

\* the positions of args that hold a mode flag
ModePositions(args) == {k \in 1..Len(args) : args[k] \in ModeFlags}

\* C30: with SyntaxCheck and ListHosts both set, every run command holds
\* exactly one mode flag, never both and never none, and consists of the
\* inventory, that flag and the targets only.
C30_OneModeFlag ==
    (pc = "built" /\ err = "" /\ cfg.SyntaxCheck /\ cfg.ListHosts) =>
        \A j \in 1..Len(cfg.Inventories) :
            LET args == RunCommand(j).args IN
            /\ Cardinality(ModePositions(args)) = 1
            /\ ModePositions(args) = {3}
            /\ args = <<"--inventory", cfg.Inventories[j], args[3]>> \o cfg.Playbooks

C30_Witness ==
    /\ pc = "built" /\ err = ""
    /\ cfg.SyntaxCheck /\ cfg.ListHosts
    /\ cfg.Check /\ cfg.Tags # "" /\ cfg.Verbose = 3
    /\ cfg.ExtraVars = <<"a=1">> /\ cfg.GalaxyFile = ""
    /\ Len(cfg.Inventories) = 2
    /\ cmds[2].args = <<"--inventory", "localhost,", "--list-hosts", "s.yml">>
    /\ cmds[3].args = <<"--inventory", "hosts", "--list-hosts", "s.yml">>
====
